---- MODULE Spec2Model ----
(***************************************************************************)
(* Verification model of the String Search Server                         *)
(* (server/server.py, server/ssl_utils.py, server/config.py,                *)
(* client/client.py).                                                      *)
(*                                                                         *)
(* Text is modelled as a sequence of one-character strings, so that        *)
(* substring search, trimming, line splitting and joining are computed     *)
(* the way the Python code computes them.  The model is ASCII only: one    *)
(* character is one UTF-8 byte, so str.encode / bytes.decode do not change *)
(* the sequence.                                                           *)
(***************************************************************************)
EXTENDS Integers, Sequences, FiniteSets, TLC

(***************************************************************************)
(* Bounds of the model.                                                    *)
(***************************************************************************)
MaxFileLen == 4
MaxQueryLen == 3

LF == "\n"
CR == "\r"
SP == " "
NUL == "NUL"   \* the byte "\x00", as one unit

\* The characters of corpus files and of queries that the model enumerates:
\* a letter, the line terminator, and (in queries) a blank.  Files are
\* every text over FileChars up to MaxFileLen, so they include empty files,
\* blank lines, and last lines with and without a terminator.
FileChars == {"a", LF}
QueryChars == {"a", SP, LF}

StrUpTo(chars, n) == UNION {[1..k -> chars] : k \in 0..n}

FileTexts == StrUpTo(FileChars, MaxFileLen)
Queries == StrUpTo(QueryChars, MaxQueryLen)

EXISTS == "STRING EXISTS"
NOT_FOUND == "STRING NOT FOUND"

(***************************************************************************)
(* Python string primitives.                                               *)
(***************************************************************************)
\* The characters str.strip() removes (those of them the model can write).
Whitespace == {SP, LF, CR, "\t"}

SetMin(S) == CHOOSE x \in S : \A y \in S : x <= y
SetMax(S) == CHOOSE x \in S : \A y \in S : y <= x

\* s.strip()
strip(s) ==
    LET keep == {i \in 1..Len(s) : s[i] \notin Whitespace}
    IN  IF keep = {} THEN <<>> ELSE SubSeq(s, SetMin(keep), SetMax(keep))

\* `not q or not q.strip()` is false
NonBlankQuery(q) == q # <<>> /\ strip(q) # <<>>

\* s.rstrip(chars)
rstrip(s, chars) ==
    LET keep == {i \in 1..Len(s) : s[i] \notin chars}
    IN  IF keep = {} THEN <<>> ELSE SubSeq(s, 1, SetMax(keep))

\* `sub in text` for str, and `text.find(sub) != -1` for bytes
Contains(text, sub) ==
    \E i \in 0..(Len(text) - Len(sub)) : SubSeq(text, i + 1, i + Len(sub)) = sub

\* Text-mode reading (newline=None): "\r\n" and "\r" are read as "\n".
RECURSIVE UniversalNewlines(_)
UniversalNewlines(data) ==
    IF data = <<>> THEN <<>>
    ELSE IF Head(data) = CR
         THEN IF Len(data) >= 2 /\ data[2] = LF
              THEN <<LF>> \o UniversalNewlines(SubSeq(data, 3, Len(data)))
              ELSE <<LF>> \o UniversalNewlines(Tail(data))
         ELSE <<Head(data)>> \o UniversalNewlines(Tail(data))

\* `for line in f`: the lines of the text, each with its terminating "\n"
\* (the last line has none when the text does not end with one).
RECURSIVE IterLines(_)
IterLines(text) ==
    IF text = <<>> THEN <<>>
    ELSE LET ends == {i \in 1..Len(text) : text[i] = LF}
         IN  IF ends = {} THEN <<text>>
             ELSE <<SubSeq(text, 1, SetMin(ends))>>
                  \o IterLines(SubSeq(text, SetMin(ends) + 1, Len(text)))

\* sep.join(lines)
RECURSIVE join(_, _)
join(sep, lines) ==
    IF lines = <<>> THEN <<>>
    ELSE IF Len(lines) = 1 THEN lines[1]
    ELSE lines[1] \o sep \o join(sep, Tail(lines))

Range(seq) == {seq[i] : i \in 1..Len(seq)}

(***************************************************************************)
(* The corpus file on disk.                                                *)
(*   missing    - no directory entry at the configured path                *)
(*   dir        - the path exists but is not a regular file                *)
(*   unreadable - a regular file on which open() (or mmap) raises:         *)
(*                permission denied, decode error, OS error.  Its bytes    *)
(*                are never seen by the program and are not kept.          *)
(*   file       - a readable regular file holding `data`                   *)
(***************************************************************************)
Missing == [kind |-> "missing", data |-> <<>>]
Directory == [kind |-> "dir", data |-> <<>>]
Unreadable == [kind |-> "unreadable", data |-> <<>>]
RegularFile(d) == [kind |-> "file", data |-> d]

FileStates == {Missing, Directory, Unreadable} \cup {RegularFile(d) : d \in FileTexts}

\* Path.exists() / Path.is_file()
exists(f) == f.kind # "missing"
is_file(f) == f.kind \in {"file", "unreadable"}

VARIABLES
    reread_on_query,  \* self.reread_on_query
    file_lines,       \* self.file_lines   (set of lines)
    file_content,     \* self.file_content (joined text)
    fs,               \* the corpus file as it is on disk now
    fs0,              \* the corpus file as it was when the server was constructed
    call,             \* the last search_string call: its argument and outcome
    c2s,              \* per connection: bytes the client wrote, not yet read by the server
    s2c,              \* per connection: what the server wrote, not yet read by the client
    handler,          \* per connection: the state of its handle_client thread
    peer,             \* per connection: the client at the other end
    wire,             \* per connection: what has been written on it so far
    frame,            \* per handler thread: its position and its locals (query, result)
    received,         \* per connection: the queries the server has read from it
    tls_call,         \* a call of create_ssl_context / of the constructor: arguments and outcome
    config,           \* self.config: the TLS settings of the configuration file
    ssl_enabled,      \* self.ssl_enabled
    ssl_context,      \* self.ssl_context
    server_socket,    \* self.server_socket: the listening socket
    running,          \* self.running
    _stop_event,      \* self._stop_event.is_set()
    signal_handlers,  \* SIGINT/SIGTERM are routed to self._shutdown
    starter,          \* the main thread, in start(): position, pending exception, outcome
    stopper,          \* another thread, in shutdown(): position
    sig,              \* the signal handler _shutdown running on the main thread: position
    count,            \* how many calls, signals and connections there have been
    config_file,      \* the lines of the configuration file Config reads
    settings,         \* the Config object being loaded: its fields
    loader,           \* _load_config: the line it has reached and its outcome
    client,           \* the StringSearchClient object: its fields
    net,              \* the client's socket as the operating system sees it
    client_call       \* the last call of connect / send_query / close and its outcome

corpusVars == <<reread_on_query, file_lines, file_content, fs, fs0, call>>
connVars == <<c2s, s2c, handler, peer, wire>>
handlerVars == <<frame, received>>
tlsVars == <<tls_call, config, ssl_enabled, ssl_context>>
lifeVars == <<server_socket, running, _stop_event, signal_handlers, starter, stopper,
              sig, count>>
otherVars == <<handlerVars, tlsVars, lifeVars>>
loaderVars == <<config_file, settings, loader>>
clientVars == <<client, net, client_call>>
outsideVars == <<loaderVars, clientVars>>

vars == <<reread_on_query, file_lines, file_content, fs, fs0, call,
          c2s, s2c, handler, peer, wire, frame, received, tls_call,
          config, ssl_enabled, ssl_context, server_socket, running, _stop_event,
          signal_handlers, starter, stopper, sig, count,
          config_file, settings, loader, client, net, client_call>>

(***************************************************************************)
(* StringSearchServer: file handling.                                      *)
(***************************************************************************)
\* A variant that keeps only the lines that end with "\n": a last line
\* without a terminator is lost.
_read_file_terminated_only(f) ==
    IF f.kind # "file" THEN <<>>
    ELSE LET lines == IterLines(UniversalNewlines(f.data))
             kept == SelectSeq(lines, LAMBDA l : strip(l) # <<>> /\ l[Len(l)] = LF)
         IN  [i \in 1..Len(kept) |-> rstrip(kept[i], {LF})]

\* _read_file: the non-blank lines without their "\n"; [] on every error
\* (file not found, permission denied, decode error, any other).
_read_file(f) ==
    IF f.kind # "file" THEN <<>>
    ELSE LET lines == IterLines(UniversalNewlines(f.data))
             kept == SelectSeq(lines, LAMBDA l : strip(l) # <<>>)
         IN  [i \in 1..Len(kept) |-> rstrip(kept[i], {LF})]

\* A variant that fills the line set and leaves the joined text empty.
_load_file_once_lines_only(f) ==
    IF ~is_file(f)
    THEN [file_lines |-> {}, file_content |-> <<>>]
    ELSE LET lines == _read_file(f)
         IN  IF lines # <<>>
             THEN [file_lines |-> Range(lines), file_content |-> <<>>]
             ELSE [file_lines |-> {}, file_content |-> <<>>]

\* A variant that joins the lines without a separator between them.
_load_file_once_unseparated(f) ==
    IF ~is_file(f)
    THEN [file_lines |-> {}, file_content |-> <<>>]
    ELSE LET lines == _read_file(f)
         IN  IF lines # <<>>
             THEN [file_lines |-> Range(lines), file_content |-> join(<<>>, lines)]
             ELSE [file_lines |-> {}, file_content |-> <<>>]

\* _load_file_once: the two cache fields after the load.
_load_file_once(f) ==
    IF ~is_file(f)
    THEN [file_lines |-> {}, file_content |-> <<>>]
    ELSE LET lines == _read_file(f)
         IN  IF lines # <<>>
             THEN [file_lines |-> Range(lines), file_content |-> join(<<LF>>, lines)]
             ELSE [file_lines |-> {}, file_content |-> <<>>]

\* Outcome of a search: the returned status (or RAISE when an exception
\* leaves the function), which of the cache and the corpus file the call
\* accessed, and the cache fields as the call leaves them.
RAISE == "raise"

Outcome(result, cacheRead, fileRead, lines, content) ==
    [result |-> result, cacheRead |-> cacheRead, fileRead |-> fileRead,
     file_lines |-> lines, file_content |-> content]

\* The body of the try block of _mmap_search: exists(), is_file(), open(),
\* mmap.mmap(), find().
mmap_scan(f, search_string) ==
    IF ~exists(f) THEN NOT_FOUND
    ELSE IF ~is_file(f) THEN NOT_FOUND
    ELSE IF f.kind = "unreadable" THEN RAISE     \* open() raises
    ELSE IF f.data = <<>> THEN RAISE             \* mmap of an empty file: ValueError
    ELSE IF Contains(f.data, search_string) THEN EXISTS  \* position != -1
    ELSE NOT_FOUND

\* A variant whose exception handler resets the cache, as the handler of
\* _load_file_once does.
_mmap_search_resets_cache(f, lines, content, search_string) ==
    LET status == mmap_scan(f, search_string)
    IN  IF status = RAISE
        THEN Outcome(NOT_FOUND, FALSE, TRUE, {}, <<>>)
        ELSE Outcome(status, FALSE, TRUE, lines, content)

\* A variant that takes a match at offset 0 for no match (position > 0).
_mmap_search_skips_offset0(f, lines, content, search_string) ==
    LET status == mmap_scan(f, search_string)
    IN  IF status = RAISE
        THEN Outcome(NOT_FOUND, FALSE, TRUE, lines, content)
        ELSE IF status = EXISTS /\ SubSeq(f.data, 1, Len(search_string)) = search_string
        THEN Outcome(NOT_FOUND, FALSE, TRUE, lines, content)
        ELSE Outcome(status, FALSE, TRUE, lines, content)

\* A variant that remembers a match of the scan in the cached lines.
_mmap_search_caches_match(f, lines, content, search_string) ==
    LET status == mmap_scan(f, search_string)
    IN  IF status = RAISE
        THEN Outcome(NOT_FOUND, FALSE, TRUE, lines, content)
        ELSE IF status = EXISTS
        THEN Outcome(status, FALSE, TRUE, lines \cup {search_string}, content)
        ELSE Outcome(status, FALSE, TRUE, lines, content)

\* _mmap_search: byte-level substring scan of the file as it is now; every
\* exception of the body is caught and mapped to STRING NOT FOUND.
_mmap_search(f, lines, content, search_string) ==
    LET status == mmap_scan(f, search_string)
    IN  IF status = RAISE
        THEN Outcome(NOT_FOUND, FALSE, TRUE, lines, content)
        ELSE Outcome(status, FALSE, TRUE, lines, content)

\* A variant without the check for an empty search string.
search_body_no_empty_check(reread, f, lines, content, q) ==
    LET search_str == strip(q)
    IN  IF reread
        THEN _mmap_search(f, lines, content, search_str)
        ELSE IF content # <<>> /\ Contains(content, search_str)
             THEN Outcome(EXISTS, TRUE, FALSE, lines, content)
        ELSE IF lines # {} /\ search_str \in lines
             THEN Outcome(EXISTS, TRUE, FALSE, lines, content)
        ELSE [_mmap_search(f, lines, content, search_str) EXCEPT !.cacheRead = TRUE]

\* A variant without the final fallback: a miss in the cache is the answer.
search_body_no_fallback(reread, f, lines, content, q) ==
    IF q = <<>> \/ strip(q) = <<>>
    THEN Outcome(NOT_FOUND, FALSE, FALSE, lines, content)
    ELSE LET search_str == strip(q)
         IN  IF reread
             THEN _mmap_search(f, lines, content, search_str)
             ELSE IF content # <<>> /\ Contains(content, search_str)
                  THEN Outcome(EXISTS, TRUE, FALSE, lines, content)
             ELSE IF lines # {} /\ search_str \in lines
                  THEN Outcome(EXISTS, TRUE, FALSE, lines, content)
             ELSE Outcome(NOT_FOUND, TRUE, FALSE, lines, content)

\* A variant that loads the cache again from the file when a static-mode
\* query misses it.
search_body_reloads_on_miss(reread, f, lines, content, q) ==
    IF q = <<>> \/ strip(q) = <<>>
    THEN Outcome(NOT_FOUND, FALSE, FALSE, lines, content)
    ELSE LET search_str == strip(q)
         IN  IF reread
             THEN _mmap_search(f, lines, content, search_str)
             ELSE IF content # <<>> /\ Contains(content, search_str)
                  THEN Outcome(EXISTS, TRUE, FALSE, lines, content)
             ELSE IF lines # {} /\ search_str \in lines
                  THEN Outcome(EXISTS, TRUE, FALSE, lines, content)
             ELSE [_mmap_search(f, _load_file_once(f).file_lines,
                                _load_file_once(f).file_content, search_str)
                      EXCEPT !.cacheRead = TRUE]

\* The body of the try block of search_string.
search_body(reread, f, lines, content, q) ==
    IF q = <<>> \/ strip(q) = <<>>
    THEN Outcome(NOT_FOUND, FALSE, FALSE, lines, content)
    ELSE LET search_str == strip(q)
         IN  IF reread
             THEN _mmap_search(f, lines, content, search_str)
             ELSE IF content # <<>> /\ Contains(content, search_str)
                  THEN Outcome(EXISTS, TRUE, FALSE, lines, content)
             ELSE IF lines # {} /\ search_str \in lines
                  THEN Outcome(EXISTS, TRUE, FALSE, lines, content)
             ELSE [_mmap_search(f, lines, content, search_str)
                      EXCEPT !.cacheRead = TRUE]

\* search_string: the body, with every exception caught and mapped to
\* STRING NOT FOUND.
search_string(reread, f, lines, content, q) ==
    LET out == search_body(reread, f, lines, content, q)
    IN  IF out.result = RAISE THEN [out EXCEPT !.result = NOT_FOUND] ELSE out

\* The corpus fields of the server as __init__ leaves them.
ServerFields(reread, lines, content) ==
    [reread_on_query |-> reread, file_lines |-> lines, file_content |-> content]

\* __init__: the cache is empty, and loaded only when reread_on_query is false.
__init__(reread, f) ==
    IF ~reread
    THEN ServerFields(reread, _load_file_once(f).file_lines, _load_file_once(f).file_content)
    ELSE ServerFields(reread, {}, <<>>)

(***************************************************************************)
(* ssl_utils.create_ssl_context and the TLS block of the constructor.       *)
(*                                                                         *)
(* A file argument (certfile, keyfile, cafile) is None, the empty string,  *)
(* or a path.  A path is named by what it leads to:                        *)
(*   missing - nothing is there                                            *)
(*   pem     - a file that loads (a certificate chain, the key matching    *)
(*             it, a CA bundle)                                            *)
(*   notpem  - a file that exists and is read, but is not what the TLS     *)
(*             library expects: loading it raises ssl.SSLError             *)
(*   dir     - the path exists but cannot be read as a file (a directory,  *)
(*             permission denied): loading it raises another OSError       *)
(***************************************************************************)
None == "None"
PathKinds == {"missing", "pem", "notpem", "dir"}
FileArgs == {None, ""} \cup PathKinds
PskArgs == {None, "", "secret"}

\* Python truthiness of an Optional[str]: `if certfile`, `not psk`.
truthy(x) == x \notin {None, ""}

\* Path(p).exists()
path_exists(p) == p # "missing"

\* context.load_cert_chain / context.load_verify_locations on one file.
load(p) ==
    CASE p = "pem" -> "ok"
      [] p = "notpem" -> "SSLError"
      [] OTHER -> "OSError"

NoContext == [present |-> FALSE, verify_mode |-> None, check_hostname |-> FALSE,
              cert_chain |-> FALSE, ca_loaded |-> FALSE]

Raised(e) == [exc |-> e, context |-> NoContext]
Returned(ctx) == [exc |-> None, context |-> ctx]

\* A variant of the argument check without the rule that certificate and
\* key come as a pair.
check_arguments_no_pair_rule(certfile, keyfile, psk) ==
    IF ~truthy(certfile) /\ ~truthy(keyfile) /\ ~truthy(psk)
    THEN "ValueError"
    ELSE "ok"

\* create_ssl_context, the two checks made before the context is created.
check_arguments(certfile, keyfile, psk) ==
    IF ~truthy(certfile) /\ ~truthy(keyfile) /\ ~truthy(psk)
    THEN "ValueError"
    ELSE IF (truthy(certfile) /\ ~truthy(keyfile)) \/ (truthy(keyfile) /\ ~truthy(certfile))
         THEN "ValueError"
         ELSE "ok"

\* ssl.create_default_context(purpose): CLIENT_AUTH for a server, SERVER_AUTH
\* for a client.
create_default_context(server_side) ==
    [present |-> TRUE,
     verify_mode |-> IF server_side THEN "CERT_NONE" ELSE "CERT_REQUIRED",
     check_hostname |-> ~server_side,
     cert_chain |-> FALSE, ca_loaded |-> FALSE]

\* The `if certfile and keyfile` block: "skip", "ok", or the exception.
load_cert_chain(certfile, keyfile) ==
    IF ~(truthy(certfile) /\ truthy(keyfile)) THEN "skip"
    ELSE IF ~path_exists(certfile) THEN "FileNotFoundError"
    ELSE IF ~path_exists(keyfile) THEN "FileNotFoundError"
    ELSE IF load(certfile) # "ok" THEN load(certfile)
    ELSE load(keyfile)

\* The `if cafile` block: "skip", "ok", or the exception.
load_verify_locations(cafile) ==
    IF ~truthy(cafile) THEN "skip"
    ELSE IF ~path_exists(cafile) THEN "FileNotFoundError"
    ELSE load(cafile)

\* The except clauses that close create_ssl_context: ValueError,
\* FileNotFoundError and ssl.SSLError pass, anything else becomes RuntimeError.
reraise(e) ==
    IF e \in {"ValueError", "FileNotFoundError", "SSLError"} THEN e ELSE "RuntimeError"

create_ssl_context(certfile, keyfile, cafile, psk, server_side, verify_client) ==
    LET chain == load_cert_chain(certfile, keyfile)
        ca == load_verify_locations(cafile)
        context == create_default_context(server_side)
    IN  IF check_arguments(certfile, keyfile, psk) # "ok"
        THEN Raised(check_arguments(certfile, keyfile, psk))
        ELSE IF chain \notin {"skip", "ok"} THEN Raised(reraise(chain))
        ELSE IF ca \notin {"skip", "ok"} THEN Raised(reraise(ca))
        ELSE Returned([context EXCEPT
                 !.cert_chain = (chain = "ok"),
                 !.ca_loaded = (ca = "ok"),
                 !.verify_mode = IF ca = "ok" /\ (verify_client \/ ~server_side)
                                 THEN "CERT_REQUIRED" ELSE @])

\* The TLS settings of a configuration file.
Configs ==
    [ssl_enabled : BOOLEAN, certfile : FileArgs, keyfile : FileArgs,
     cafile : FileArgs, psk : PskArgs]

\* A variant of the constructor's TLS block that lets every exception of
\* create_ssl_context through.
init_tls_no_fallback(cfg) ==
    LET r == create_ssl_context(cfg.certfile, cfg.keyfile, cfg.cafile, cfg.psk,
                                TRUE, FALSE)
    IN  IF ~cfg.ssl_enabled
        THEN [exc |-> None, ssl_enabled |-> FALSE, ssl_context |-> NoContext]
        ELSE IF r.exc = None
        THEN [exc |-> None, ssl_enabled |-> TRUE, ssl_context |-> r.context]
        ELSE [exc |-> "RuntimeError", ssl_enabled |-> TRUE, ssl_context |-> NoContext]

\* A variant of the constructor's TLS block whose fallback drops the
\* context and leaves the flag set.
init_tls_keeps_flag(cfg) ==
    LET r == create_ssl_context(cfg.certfile, cfg.keyfile, cfg.cafile, cfg.psk,
                                TRUE, FALSE)
    IN  IF ~cfg.ssl_enabled
        THEN [exc |-> None, ssl_enabled |-> FALSE, ssl_context |-> NoContext]
        ELSE IF r.exc = None
        THEN [exc |-> None, ssl_enabled |-> TRUE, ssl_context |-> r.context]
        ELSE IF r.exc \in {"ValueError", "FileNotFoundError"}
        THEN [exc |-> None, ssl_enabled |-> TRUE, ssl_context |-> NoContext]
        ELSE [exc |-> "RuntimeError", ssl_enabled |-> TRUE, ssl_context |-> NoContext]

\* StringSearchServer.__init__, "Apply SSL if enabled": the exception the
\* constructor ends with (None: it returns) and the two fields it leaves.
init_tls(cfg) ==
    LET r == create_ssl_context(cfg.certfile, cfg.keyfile, cfg.cafile, cfg.psk,
                                TRUE, FALSE)
    IN  IF ~cfg.ssl_enabled
        THEN [exc |-> None, ssl_enabled |-> FALSE, ssl_context |-> NoContext]
        ELSE IF r.exc = None
        THEN [exc |-> None, ssl_enabled |-> TRUE, ssl_context |-> r.context]
        ELSE IF r.exc \in {"ValueError", "FileNotFoundError"}
        THEN [exc |-> None, ssl_enabled |-> FALSE, ssl_context |-> NoContext]
        ELSE [exc |-> "RuntimeError", ssl_enabled |-> TRUE, ssl_context |-> NoContext]

\* A configuration without TLS.
PlainConfig ==
    [ssl_enabled |-> FALSE, certfile |-> None, keyfile |-> None, cafile |-> None,
     psk |-> None]

NoTLSCall == [op |-> None, server_side |-> TRUE, verify_client |-> FALSE,
              exc |-> None, context |-> NoContext]

\* A server constructed from a configuration without TLS.
PlainServer ==
    /\ config = PlainConfig
    /\ ssl_enabled = init_tls(PlainConfig).ssl_enabled
    /\ ssl_context = init_tls(PlainConfig).ssl_context
    /\ tls_call = NoTLSCall

\* The fields the constructor sets for the life of the server: a fresh
\* socket, the running flag false, the stop event unset; start() has not
\* been called and nothing has been delivered.
NewSocket == [state |-> "created", tls |-> FALSE]
Idle == [pc |-> "idle", exc |-> None, outcome |-> None, accepted |-> 0,
         interrupted |-> None]
NoCounts == [starts |-> 0, shutdowns |-> 0, signals |-> 0, accepted |-> 0,
             dispatched |-> 0, handshakes_failed |-> 0, io_errors |-> 0]

NotStarted ==
    /\ server_socket = NewSocket
    /\ running = FALSE
    /\ _stop_event = FALSE
    /\ signal_handlers = FALSE
    /\ starter = Idle
    /\ stopper = "idle"
    /\ sig = "idle"
    /\ count = NoCounts

\* start() has bound, listened, installed the signal handlers, accepted n
\* connections and given each to a handler thread; it waits in accept.
AcceptLoopRunning(n) ==
    /\ server_socket = [state |-> "listening", tls |-> FALSE]
    /\ running = TRUE
    /\ _stop_event = FALSE
    /\ signal_handlers = TRUE
    /\ starter = [Idle EXCEPT !.pc = "in_accept", !.accepted = n]
    /\ stopper = "idle"
    /\ sig = "idle"
    /\ count = [NoCounts EXCEPT !.starts = 1, !.accepted = n, !.dispatched = n]

(***************************************************************************)
(* Config and StringSearchClient before anything is called on them.        *)
(***************************************************************************)
\* An optional string field: None, or a string.
Unset == [set |-> FALSE, value |-> <<>>]
Str(v) == [set |-> TRUE, value |-> v]

\* Config.__init__: the defaults of the fields.
DefaultSettings ==
    [host |-> <<"0", ".", "0", ".", "0", ".", "0">>, port |-> 44445, linuxpath |-> <<".">>,
     reread_on_query |-> FALSE, ssl_enabled |-> FALSE,
     certfile |-> Unset, keyfile |-> Unset, cafile |-> Unset, psk |-> Unset]

\* _load_config has not read a line.
NotLoading == [line_number |-> 0, exc |-> None, returned |-> FALSE]

NoConfigLoad ==
    /\ config_file = <<>>
    /\ settings = DefaultSettings
    /\ loader = NotLoading

\* self.socket: None, or a socket object, plain or wrapped by a TLS context.
NoSocket == [kind |-> None]
PlainSocket == [kind |-> "plain"]
TLSSocket == [kind |-> "tls"]

\* StringSearchClient.__init__
NewClient(use_ssl, certfile, keyfile, cafile) ==
    [use_ssl |-> use_ssl, certfile |-> certfile, keyfile |-> keyfile,
     cafile |-> cafile, socket |-> NoSocket]

\* The connection of the socket the client holds: whether it is connected,
\* the bytes written on it, the bytes the server has written that are not
\* yet read, and whether the server has closed its end.
NoNet == [state |-> "none", tls |-> FALSE, sent |-> <<>>, inbox |-> <<>>,
          replies |-> 0, server_closed |-> FALSE]

\* No call has been made.  A call records its argument, the exception it
\* raised and that exception's message, what made it fail, the bytes it
\* read and the value it returned, and the object and its connection as
\* they were when it was made.
NoClientCall == [n |-> 0, op |-> None, pc |-> "done", query |-> <<>>, exc |-> None,
                 message |-> None, cause |-> None, data |-> <<>>, result |-> <<>>,
                 before |-> [socket |-> NoSocket, use_ssl |-> FALSE, net |-> NoNet]]

NoClient ==
    /\ client = NewClient(FALSE, None, None, None)
    /\ net = NoNet
    /\ client_call = NoClientCall

NoCall == [made |-> FALSE]

\* The server right after construction, over any corpus file, in either mode.
Constructed ==
    /\ reread_on_query \in BOOLEAN
    /\ fs0 \in FileStates
    /\ fs = fs0
    /\ file_lines = __init__(reread_on_query, fs0).file_lines
    /\ file_content = __init__(reread_on_query, fs0).file_content
    /\ call = NoCall

\* No connection has been accepted.
Init ==
    /\ Constructed
    /\ NoConfigLoad
    /\ NoClient
    /\ c2s = <<>>
    /\ s2c = <<>>
    /\ handler = <<>>
    /\ peer = <<>>
    /\ wire = <<>>
    /\ frame = <<>>
    /\ received = <<>>
    /\ PlainServer
    /\ NotStarted

(***************************************************************************)
(* Operations.                                                             *)
(***************************************************************************)
\* A caller invokes search_string(q).  `call` holds the argument, what the
\* caller gets back, and the server's fields as they were before the call.
Search(q) ==
    LET r == search_string(reread_on_query, fs, file_lines, file_content, q)
    IN  /\ ~call.made
        /\ call' = [made |-> TRUE, q |-> q, result |-> r.result,
                    cacheRead |-> r.cacheRead, fileRead |-> r.fileRead,
                    before |-> ServerFields(reread_on_query, file_lines, file_content)]
        /\ file_lines' = r.file_lines
        /\ file_content' = r.file_content
        /\ UNCHANGED <<outsideVars, reread_on_query, fs, fs0, connVars, otherVars>>

\* The caller has taken the result; the server is idle again.
Return ==
    /\ call.made
    /\ call' = NoCall
    /\ UNCHANGED <<outsideVars, reread_on_query, file_lines, file_content, fs, fs0, connVars, otherVars>>

\* The corpus file is changed on disk by someone else, between two calls.
WriteFile(d) ==
    /\ ~call.made
    /\ fs # RegularFile(d)
    /\ fs' = RegularFile(d)
    /\ UNCHANGED <<outsideVars, reread_on_query, file_lines, file_content, fs0, call, connVars, otherVars>>

DeleteFile ==
    /\ ~call.made
    /\ fs # Missing
    /\ fs' = Missing
    /\ UNCHANGED <<outsideVars, reread_on_query, file_lines, file_content, fs0, call, connVars, otherVars>>

ReplaceByDirectory ==
    /\ ~call.made
    /\ fs # Directory
    /\ fs' = Directory
    /\ UNCHANGED <<outsideVars, reread_on_query, file_lines, file_content, fs0, call, connVars, otherVars>>

DenyRead ==
    /\ ~call.made
    /\ fs.kind = "file"
    /\ fs' = Unreadable
    /\ UNCHANGED <<outsideVars, reread_on_query, file_lines, file_content, fs0, call, connVars, otherVars>>

Next ==
    \/ \E q \in Queries : Search(q)
    \/ Return
    \/ \E d \in FileTexts : WriteFile(d)
    \/ DeleteFile
    \/ ReplaceByDirectory
    \/ DenyRead

Spec == Init /\ [][Next]_vars

(***************************************************************************)
(* Connections: StringSearchServer.handle_client on one end,               *)
(* a client (StringSearchClient.send_query, or a raw socket) on the other. *)
(*                                                                         *)
(* A byte stream is a sequence of units.  Towards the server a unit is one *)
(* character.  Towards the client a unit is a character or one of the two  *)
(* status texts, kept as one block.  What one sendall writes becomes       *)
(* available to the reader at once; a recv takes what is available, up to  *)
(* its size limit.                                                         *)
(***************************************************************************)
\* MAX_PAYLOAD, the size of a server read, scaled down: a read of at most 2
\* bytes stands for the read of at most 1024 bytes, so that a query longer
\* than one read can be enumerated.
MAX_PAYLOAD == 2

\* The most queries a client writes on one connection.
MaxWrites == 2

\* The queries clients send over a connection.
WireChars == {"a"}
WireQueries == StrUpTo(WireChars, MaxQueryLen)

Min(a, b) == IF a < b THEN a ELSE b

\* socket.recv(n) on a stream holding buf: the bytes returned.
recv(buf, n) == SubSeq(buf, 1, Min(n, Len(buf)))

\* The stream after that recv.
after_recv(buf, n) == SubSeq(buf, Min(n, Len(buf)) + 1, Len(buf))

\* data.decode("utf-8", errors="ignore").rstrip("\x00").strip()
decode_query(data) == strip(rstrip(data, {NUL}))

\* A variant of the reply without the terminating newline.
reply_line_no_newline(result) == <<result>>

\* (result + "\n").encode("utf-8")
reply_line(result) == <<result, LF>>

\* One iteration of the loop of handle_client on the bytes of one read: the
\* line written back, and the cache fields afterwards.
handle_request(reread, f, lines, content, data) ==
    LET query == decode_query(data)
        r == search_string(reread, f, lines, content, query)
    IN  IF query = <<>>
        THEN [message |-> reply_line(NOT_FOUND),
              file_lines |-> lines, file_content |-> content]
        ELSE [message |-> reply_line(IF r.result = RAISE THEN NOT_FOUND ELSE r.result),
              file_lines |-> r.file_lines, file_content |-> r.file_content]

Fresh == [state |-> "idle", q |-> <<>>, response |-> <<>>, returned |-> FALSE,
          api |-> TRUE]
NoTraffic == [written |-> 0, replies |-> 0, last |-> <<>>]

\* The locals of a handle_client thread that is about to call recv.
NoFrame == [pc |-> "recv", query |-> <<>>, result |-> NOT_FOUND]

\* The corpus files of the servers that connections are made to: no file,
\* an unreadable file, and the files holding one of the queries as a line.
ConnFileStates ==
    {Missing, Unreadable}
        \cup {RegularFile(q \o <<LF>>) : q \in WireQueries \ {<<>>}}

\* One client is connected and its handler thread is running.
InitConn ==
    /\ Constructed
    /\ NoConfigLoad
    /\ NoClient
    /\ fs0 \in ConnFileStates
    /\ c2s = [c \in {1} |-> <<>>]
    /\ s2c = [c \in {1} |-> <<>>]
    /\ handler = [c \in {1} |-> "serving"]
    /\ peer = [c \in {1} |-> Fresh]
    /\ wire = [c \in {1} |-> NoTraffic]
    /\ frame = [c \in {1} |-> NoFrame]
    /\ received = [c \in {1} |-> {}]
    /\ PlainServer
    /\ AcceptLoopRunning(1)

Conns == DOMAIN handler

\* handle_client, recv returning b"": the peer has disconnected, the loop ends.
HandleDisconnect(c) ==
    /\ handler[c] = "serving"
    /\ c2s[c] = <<>>
    /\ peer[c].state = "closed"
    /\ handler' = [handler EXCEPT ![c] = "closed"]
    /\ UNCHANGED <<outsideVars, corpusVars, c2s, s2c, peer, wire, otherVars>>

\* handle_client, one iteration: recv, decode, search, sendall.
HandleRead(c) ==
    LET data == recv(c2s[c], MAX_PAYLOAD)
        h == handle_request(reread_on_query, fs, file_lines, file_content, data)
    IN  /\ handler[c] = "serving"
        /\ c2s[c] # <<>>
        /\ c2s' = [c2s EXCEPT ![c] = after_recv(c2s[c], MAX_PAYLOAD)]
        /\ file_lines' = h.file_lines
        /\ file_content' = h.file_content
        /\ s2c' = [s2c EXCEPT ![c] = s2c[c] \o h.message]
        /\ wire' = [wire EXCEPT ![c].replies = wire[c].replies + 1,
                                ![c].last = h.message]
        /\ UNCHANGED <<outsideVars, reread_on_query, fs, fs0, call, handler, peer, otherVars>>

\* handle_client, one iteration whose sendall fails because the peer is
\* gone: the loop ends.
HandleReadSendFails(c) ==
    LET data == recv(c2s[c], MAX_PAYLOAD)
        h == handle_request(reread_on_query, fs, file_lines, file_content, data)
    IN  /\ handler[c] = "serving"
        /\ c2s[c] # <<>>
        /\ peer[c].state = "closed"
        /\ c2s' = [c2s EXCEPT ![c] = after_recv(c2s[c], MAX_PAYLOAD)]
        /\ file_lines' = h.file_lines
        /\ file_content' = h.file_content
        /\ handler' = [handler EXCEPT ![c] = "closed"]
        /\ UNCHANGED <<outsideVars, reread_on_query, fs, fs0, call, s2c, peer, wire, otherVars>>

\* StringSearchClient.send_query(q), first half: sendall of the trimmed
\* query and a newline; the client then waits in recv.
SendQuery(c, q) ==
    /\ peer[c].state = "idle"
    /\ NonBlankQuery(q)
    /\ wire[c].written < MaxWrites
    /\ c2s' = [c2s EXCEPT ![c] = c2s[c] \o strip(q) \o <<LF>>]
    /\ peer' = [peer EXCEPT ![c].state = "await", ![c].q = q,
                            ![c].response = <<>>, ![c].returned = FALSE]
    /\ wire' = [wire EXCEPT ![c].written = wire[c].written + 1]
    /\ UNCHANGED <<outsideVars, corpusVars, s2c, handler, otherVars>>

\* StringSearchClient.send_query(q), second half: recv(1024) returns what
\* the server has written, the call returns it decoded and trimmed.
ReceiveResponse(c) ==
    /\ peer[c].state = "await"
    /\ s2c[c] # <<>>
    /\ peer' = [peer EXCEPT ![c].state = "idle", ![c].response = strip(s2c[c]),
                            ![c].returned = TRUE]
    /\ s2c' = [s2c EXCEPT ![c] = <<>>]
    /\ UNCHANGED <<outsideVars, corpusVars, c2s, handler, wire, otherVars>>

\* A client on a raw socket writes '<query>\n' without waiting for the
\* reply to what it wrote before.
RawWrite(c, q) ==
    /\ peer[c].state = "idle"
    /\ wire[c].written < MaxWrites
    /\ c2s' = [c2s EXCEPT ![c] = c2s[c] \o q \o <<LF>>]
    /\ peer' = [peer EXCEPT ![c].api = FALSE, ![c].returned = FALSE]
    /\ wire' = [wire EXCEPT ![c].written = wire[c].written + 1]
    /\ UNCHANGED <<outsideVars, corpusVars, s2c, handler, otherVars>>

\* The client closes its socket.
ClientClose(c) ==
    /\ peer[c].state = "idle"
    /\ peer' = [peer EXCEPT ![c].state = "closed", ![c].returned = FALSE]
    /\ UNCHANGED <<outsideVars, corpusVars, c2s, s2c, handler, wire, otherVars>>

NextConn ==
    \/ \E c \in Conns : HandleDisconnect(c)
    \/ \E c \in Conns : HandleRead(c)
    \/ \E c \in Conns : HandleReadSendFails(c)
    \/ \E c \in Conns : \E q \in WireQueries : SendQuery(c, q)
    \/ \E c \in Conns : ReceiveResponse(c)
    \/ \E c \in Conns : \E q \in WireQueries : RawWrite(c, q)
    \/ \E c \in Conns : ClientClose(c)

SpecConn == InitConn /\ [][NextConn]_vars

(***************************************************************************)
(* Several connections served at once.  start() gives every accepted       *)
(* connection its own thread running handle_client; the threads are        *)
(* interleaved statement by statement: recv and decode, search_string,     *)
(* sendall.                                                                *)
(***************************************************************************)
MultiConns == {1, 2}

\* A variant in which the handlers keep query and result in one place
\* shared by all of them (attributes of the server object).
frame_shared(c) == 1

\* Where the handler of connection c keeps `query` and `result`: they are
\* locals of handle_client, one set per thread.
frame_of(c) == c

\* The corpus of the server the connections are made to: the line "a".
MultiFile == RegularFile(<<"a", LF>>)

\* The queries the clients send: one that is a line of the corpus, one that
\* is not.
MultiQueries == {<<"a">>, <<"a", "a">>}

\* handle_client: recv returns data, the query is decoded from it.  An empty
\* query is answered STRING NOT FOUND without a search.
HandlerRecv(c) ==
    LET query == decode_query(recv(c2s[c], MAX_PAYLOAD))
    IN  /\ handler[c] = "serving"
        /\ frame[c].pc = "recv"
        /\ ~_stop_event
        /\ c2s[c] # <<>>
        /\ c2s' = [c2s EXCEPT ![c] = after_recv(c2s[c], MAX_PAYLOAD)]
        /\ received' = [received EXCEPT ![c] = received[c] \cup {query}]
        /\ frame' = IF query = <<>>
                    THEN [frame EXCEPT ![c].pc = "send",
                                       ![frame_of(c)].query = query,
                                       ![frame_of(c)].result = NOT_FOUND]
                    ELSE [frame EXCEPT ![c].pc = "search",
                                       ![frame_of(c)].query = query]
        /\ UNCHANGED <<outsideVars, corpusVars, s2c, handler, peer, wire, tlsVars, lifeVars>>

\* handle_client: result = self.search_string(query)
HandlerSearch(c) ==
    LET r == search_string(reread_on_query, fs, file_lines, file_content,
                           frame[frame_of(c)].query)
    IN  /\ handler[c] = "serving"
        /\ frame[c].pc = "search"
        /\ file_lines' = r.file_lines
        /\ file_content' = r.file_content
        /\ frame' = [frame EXCEPT ![c].pc = "send",
                                  ![frame_of(c)].result =
                                      IF r.result = RAISE THEN NOT_FOUND ELSE r.result]
        /\ UNCHANGED <<outsideVars, reread_on_query, fs, fs0, call, connVars, received,
                       tlsVars, lifeVars>>

\* handle_client: client_socket.sendall((result + "\n").encode("utf-8"))
HandlerSend(c) ==
    LET message == reply_line(frame[frame_of(c)].result)
    IN  /\ handler[c] = "serving"
        /\ frame[c].pc = "send"
        /\ peer[c].state # "closed"
        /\ s2c' = [s2c EXCEPT ![c] = s2c[c] \o message]
        /\ wire' = [wire EXCEPT ![c].replies = wire[c].replies + 1,
                                ![c].last = message]
        /\ frame' = [frame EXCEPT ![c].pc = "recv"]
        /\ UNCHANGED <<outsideVars, corpusVars, c2s, handler, peer, received, tlsVars, lifeVars>>

\* handle_client: recv returns b"" or sendall fails because the peer has
\* closed; the loop ends and the connection is closed.
HandlerEnds(c) ==
    /\ handler[c] = "serving"
    /\ peer[c].state = "closed"
    /\ \/ frame[c].pc = "recv" /\ c2s[c] = <<>>
       \/ frame[c].pc = "send"
    /\ handler' = [handler EXCEPT ![c] = "closed"]
    /\ UNCHANGED <<outsideVars, corpusVars, c2s, s2c, peer, wire, handlerVars, tlsVars, lifeVars>>

\* Two clients are connected, each with its handler thread about to read.
InitMulti ==
    /\ Constructed
    /\ NoConfigLoad
    /\ NoClient
    /\ fs0 = MultiFile
    /\ c2s = [c \in MultiConns |-> <<>>]
    /\ s2c = [c \in MultiConns |-> <<>>]
    /\ handler = [c \in MultiConns |-> "serving"]
    /\ peer = [c \in MultiConns |-> Fresh]
    /\ wire = [c \in MultiConns |-> NoTraffic]
    /\ frame = [c \in MultiConns |-> NoFrame]
    /\ received = [c \in MultiConns |-> {}]
    /\ PlainServer
    /\ AcceptLoopRunning(Cardinality(MultiConns))

NextMulti ==
    \/ \E c \in Conns : HandlerRecv(c)
    \/ \E c \in Conns : HandlerSearch(c)
    \/ \E c \in Conns : HandlerSend(c)
    \/ \E c \in Conns : HandlerEnds(c)
    \/ \E c \in Conns : \E q \in MultiQueries : SendQuery(c, q)
    \/ \E c \in Conns : ReceiveResponse(c)
    \/ \E c \in Conns : ClientClose(c)

SpecMulti == InitMulti /\ [][NextMulti]_vars

(***************************************************************************)
(* The life of the server: start() on the main thread, shutdown() on       *)
(* another thread, the signal handler _shutdown on the main thread, and    *)
(* the peers that connect.  Every statement that reads or writes the       *)
(* listening socket, the running flag or the stop event is a step of its   *)
(* own, so that the threads interleave between any two of them.            *)
(*                                                                         *)
(* The listening socket is created -> bound -> listening -> closed.  A     *)
(* call on a closed socket raises OSError.  An accept that is already      *)
(* waiting when another thread closes the socket keeps waiting, and        *)
(* returns the next connection that arrives: close() only releases the     *)
(* descriptor.  A signal interrupts the accept of the main thread; when    *)
(* the handler returns the accept is tried again, on the closed socket.    *)
(***************************************************************************)
\* The most calls of start(), and the most requests to stop (calls of
\* shutdown() and signals together).
MaxCalls == 2

\* The most connections that arrive.
MaxAccepts == 2

\* The configurations the server is constructed from: without TLS, TLS with
\* certificate and key, TLS with neither certificate nor key nor PSK, TLS
\* with a certificate but no key.
LifeConfigs ==
    {PlainConfig,
     [PlainConfig EXCEPT !.ssl_enabled = TRUE, !.certfile = "pem", !.keyfile = "pem"],
     [PlainConfig EXCEPT !.ssl_enabled = TRUE],
     [PlainConfig EXCEPT !.ssl_enabled = TRUE, !.certfile = "pem"]}

\* How many times the server has been asked to stop.
stop_requests == count.shutdowns + count.signals

\* The positions of start() inside `while not self._stop_event.is_set()`.
LoopPcs == {"loop", "accept", "in_accept", "dispatch", "oserror"}

\* The main thread runs start() only while it is not in the signal handler.
MainRuns == sig = "idle"

\* An exception leaves the try block of start(): the finally block is next.
raise(cause) == [starter EXCEPT !.pc = "finally_close", !.exc = cause]

\* Shutdown begins: remember where start() was, the first time.
note_shutdown ==
    IF starter.interrupted = None
    THEN [starter EXCEPT !.interrupted = starter.pc]
    ELSE starter

\* The server as constructed from one of the configurations.
InitLife ==
    /\ Constructed
    /\ NoConfigLoad
    /\ NoClient
    /\ ~reread_on_query
    /\ fs0 = MultiFile
    /\ c2s = <<>>
    /\ s2c = <<>>
    /\ handler = <<>>
    /\ peer = <<>>
    /\ wire = <<>>
    /\ frame = <<>>
    /\ received = <<>>
    /\ config \in LifeConfigs
    /\ ssl_enabled = init_tls(config).ssl_enabled
    /\ ssl_context = init_tls(config).ssl_context
    /\ tls_call = [NoTLSCall EXCEPT !.op = "__init__", !.exc = init_tls(config).exc]
    /\ NotStarted

\* start() is called.
StartCall ==
    /\ MainRuns
    /\ starter.pc = "idle"
    /\ count.starts < MaxCalls
    /\ starter' = [Idle EXCEPT !.pc = "wrap"]
    /\ count' = [count EXCEPT !.starts = @ + 1]
    /\ UNCHANGED <<outsideVars, corpusVars, connVars, handlerVars, tlsVars, server_socket, running,
                   _stop_event, signal_handlers, stopper, sig>>

\* if self.ssl_enabled and self.ssl_context: wrap the listening socket.
StartWrap ==
    /\ MainRuns
    /\ starter.pc = "wrap"
    /\ IF ssl_enabled /\ ssl_context.present
       THEN IF server_socket.state = "closed"
            THEN starter' = raise("wrap") /\ UNCHANGED server_socket
            ELSE /\ server_socket' = [server_socket EXCEPT !.tls = TRUE]
                 /\ starter' = [starter EXCEPT !.pc = "bind"]
       ELSE starter' = [starter EXCEPT !.pc = "bind"] /\ UNCHANGED server_socket
    /\ UNCHANGED <<outsideVars, corpusVars, connVars, handlerVars, tlsVars, running, _stop_event,
                   signal_handlers, stopper, sig, count>>

\* self.server_socket.bind((self.host, self.port)); ok: the address is free.
StartBind(ok) ==
    /\ MainRuns
    /\ starter.pc = "bind"
    /\ IF server_socket.state = "closed" \/ ~ok
       THEN starter' = raise("bind") /\ UNCHANGED server_socket
       ELSE /\ server_socket' = [server_socket EXCEPT !.state = "bound"]
            /\ starter' = [starter EXCEPT !.pc = "listen"]
    /\ UNCHANGED <<outsideVars, corpusVars, connVars, handlerVars, tlsVars, running, _stop_event,
                   signal_handlers, stopper, sig, count>>

\* self.server_socket.listen(5)
StartListen(ok) ==
    /\ MainRuns
    /\ starter.pc = "listen"
    /\ IF server_socket.state = "closed" \/ ~ok
       THEN starter' = raise("listen") /\ UNCHANGED server_socket
       ELSE /\ server_socket' = [server_socket EXCEPT !.state = "listening"]
            /\ starter' = [starter EXCEPT !.pc = "signal"]
    /\ UNCHANGED <<outsideVars, corpusVars, connVars, handlerVars, tlsVars, running, _stop_event,
                   signal_handlers, stopper, sig, count>>

\* signal.signal(SIGINT, self._shutdown); signal.signal(SIGTERM, self._shutdown)
StartInstallSignals ==
    /\ MainRuns
    /\ starter.pc = "signal"
    /\ signal_handlers' = TRUE
    /\ starter' = [starter EXCEPT !.pc = "set_running"]
    /\ UNCHANGED <<outsideVars, corpusVars, connVars, handlerVars, tlsVars, server_socket, running,
                   _stop_event, stopper, sig, count>>

\* self.running = True
StartSetRunning ==
    /\ MainRuns
    /\ starter.pc = "set_running"
    /\ running' = TRUE
    /\ starter' = [starter EXCEPT !.pc = "loop"]
    /\ UNCHANGED <<outsideVars, corpusVars, connVars, handlerVars, tlsVars, server_socket,
                   _stop_event, signal_handlers, stopper, sig, count>>

\* while not self._stop_event.is_set():
LoopCheck ==
    /\ MainRuns
    /\ starter.pc = "loop"
    /\ starter' = [starter EXCEPT !.pc = IF _stop_event THEN "finally_close" ELSE "accept"]
    /\ UNCHANGED <<outsideVars, corpusVars, connVars, handlerVars, tlsVars, server_socket, running,
                   _stop_event, signal_handlers, stopper, sig, count>>

\* self.server_socket.accept() is called: on a closed socket it raises
\* OSError at once, otherwise it waits for a connection.
AcceptEnter ==
    /\ MainRuns
    /\ starter.pc = "accept"
    /\ starter' = IF server_socket.state = "closed"
                  THEN [starter EXCEPT !.pc = "oserror", !.exc = "accept"]
                  ELSE [starter EXCEPT !.pc = "in_accept"]
    /\ UNCHANGED <<outsideVars, corpusVars, connVars, handlerVars, tlsVars, server_socket, running,
                   _stop_event, signal_handlers, stopper, sig, count>>

\* A peer connects and the waiting accept takes the connection.  On a
\* wrapped socket accept also performs the TLS handshake with the peer;
\* a handshake that fails makes accept raise ssl.SSLError, an OSError.
AcceptReturns(handshake) ==
    /\ MainRuns
    /\ starter.pc = "in_accept"
    /\ count.accepted < MaxAccepts
    /\ server_socket.tls \/ handshake = "ok"
    /\ IF handshake = "ok"
       THEN /\ starter' = [starter EXCEPT !.pc = "dispatch", !.accepted = @ + 1]
            /\ count' = [count EXCEPT !.accepted = @ + 1]
       ELSE /\ starter' = [starter EXCEPT !.pc = "oserror", !.exc = "handshake"]
            /\ count' = [count EXCEPT !.handshakes_failed = @ + 1]
    /\ UNCHANGED <<outsideVars, corpusVars, connVars, handlerVars, tlsVars, server_socket, running,
                   _stop_event, signal_handlers, stopper, sig>>

\* threading.Thread(target=self.handle_client, ...).start()
Dispatch ==
    LET c == count.dispatched + 1
    IN  /\ MainRuns
        /\ starter.pc = "dispatch"
        /\ handler' = handler @@ (c :> "serving")
        /\ c2s' = c2s @@ (c :> <<>>)
        /\ s2c' = s2c @@ (c :> <<>>)
        /\ peer' = peer @@ (c :> Fresh)
        /\ wire' = wire @@ (c :> NoTraffic)
        /\ frame' = frame @@ (c :> [NoFrame EXCEPT !.pc = "top"])
        /\ received' = received @@ (c :> {})
        /\ count' = [count EXCEPT !.dispatched = c]
        /\ starter' = [starter EXCEPT !.pc = "loop"]
        /\ UNCHANGED <<outsideVars, corpusVars, tlsVars, server_socket, running, _stop_event,
                       signal_handlers, stopper, sig>>

\* except OSError: if not self._stop_event.is_set(): raise; else break
AcceptFailed ==
    /\ MainRuns
    /\ starter.pc = "oserror"
    /\ starter' = IF ~_stop_event
                  THEN raise(starter.exc)
                  ELSE [starter EXCEPT !.pc = "finally_close", !.exc = None]
    /\ UNCHANGED <<outsideVars, corpusVars, connVars, handlerVars, tlsVars, server_socket, running,
                   _stop_event, signal_handlers, stopper, sig, count>>

\* A variant of the finally block that leaves the socket open.
StartFinallyClose_skipped ==
    /\ MainRuns
    /\ starter.pc = "finally_close"
    /\ starter' = [starter EXCEPT !.pc = "finally_flag"]
    /\ UNCHANGED <<outsideVars, corpusVars, connVars, handlerVars, tlsVars, server_socket, running,
                   _stop_event, signal_handlers, stopper, sig, count>>

\* finally: self.server_socket.close()
StartFinallyClose ==
    /\ MainRuns
    /\ starter.pc = "finally_close"
    /\ server_socket' = [server_socket EXCEPT !.state = "closed"]
    /\ starter' = [starter EXCEPT !.pc = "finally_flag"]
    /\ UNCHANGED <<outsideVars, corpusVars, connVars, handlerVars, tlsVars, running, _stop_event,
                   signal_handlers, stopper, sig, count>>

\* A variant of the end of start() that also clears the stop event, so
\* that the server could be started again.
StartFinallyFlag_clears_stop ==
    /\ MainRuns
    /\ starter.pc = "finally_flag"
    /\ running' = FALSE
    /\ _stop_event' = FALSE
    /\ starter' = [starter EXCEPT !.pc = "idle",
                       !.outcome = IF starter.exc = None THEN "returned" ELSE "RuntimeError"]
    /\ UNCHANGED <<outsideVars, corpusVars, connVars, handlerVars, tlsVars, server_socket,
                   signal_handlers, stopper, sig, count>>

\* finally: self.running = False; start() returns, or ends with the
\* RuntimeError made of the exception that left the try block.
StartFinallyFlag ==
    /\ MainRuns
    /\ starter.pc = "finally_flag"
    /\ running' = FALSE
    /\ starter' = [starter EXCEPT !.pc = "idle",
                       !.outcome = IF starter.exc = None THEN "returned" ELSE "RuntimeError"]
    /\ UNCHANGED <<outsideVars, corpusVars, connVars, handlerVars, tlsVars, server_socket,
                   _stop_event, signal_handlers, stopper, sig, count>>

\* shutdown() on another thread: self.server_socket.close()
ShutdownClose ==
    /\ stopper = "idle"
    /\ stop_requests < MaxCalls
    /\ server_socket' = [server_socket EXCEPT !.state = "closed"]
    /\ stopper' = "clear"
    /\ starter' = note_shutdown
    /\ count' = [count EXCEPT !.shutdowns = @ + 1]
    /\ UNCHANGED <<outsideVars, corpusVars, connVars, handlerVars, tlsVars, running, _stop_event,
                   signal_handlers, sig>>

\* shutdown(): self.running = False
ShutdownClearRunning ==
    /\ stopper = "clear"
    /\ running' = FALSE
    /\ stopper' = "set"
    /\ UNCHANGED <<outsideVars, corpusVars, connVars, handlerVars, tlsVars, server_socket,
                   _stop_event, signal_handlers, starter, sig, count>>

\* shutdown(): self._stop_event.set()
ShutdownSetStop ==
    /\ stopper = "set"
    /\ _stop_event' = TRUE
    /\ stopper' = "idle"
    /\ UNCHANGED <<outsideVars, corpusVars, connVars, handlerVars, tlsVars, server_socket, running,
                   signal_handlers, starter, sig, count>>

\* SIGINT or SIGTERM is delivered; _shutdown: self._stop_event.set()
SignalSetStop ==
    /\ signal_handlers
    /\ sig = "idle"
    /\ stop_requests < MaxCalls
    /\ _stop_event' = TRUE
    /\ sig' = "close"
    /\ starter' = note_shutdown
    /\ count' = [count EXCEPT !.signals = @ + 1]
    /\ UNCHANGED <<outsideVars, corpusVars, connVars, handlerVars, tlsVars, server_socket, running,
                   signal_handlers, stopper>>

\* _shutdown: server_socket.shutdown(SHUT_RDWR), whose errors are caught;
\* finally: self.server_socket.close()
SignalClose ==
    /\ sig = "close"
    /\ server_socket' = [server_socket EXCEPT !.state = "closed"]
    /\ sig' = "clear"
    /\ UNCHANGED <<outsideVars, corpusVars, connVars, handlerVars, tlsVars, running, _stop_event,
                   signal_handlers, starter, stopper, count>>

\* _shutdown: self.running = False; the handler returns.  An accept that
\* the signal interrupted is tried again and fails on the closed socket.
SignalClearRunning ==
    /\ sig = "clear"
    /\ running' = FALSE
    /\ sig' = "idle"
    /\ starter' = IF starter.pc = "in_accept"
                  THEN [starter EXCEPT !.pc = "oserror", !.exc = "accept"]
                  ELSE starter
    /\ UNCHANGED <<outsideVars, corpusVars, connVars, handlerVars, tlsVars, server_socket,
                   _stop_event, signal_handlers, stopper, count>>

\* A second signal is delivered while _shutdown is running: _shutdown runs
\* once more, from its first to its last statement, inside the first run.
SignalNested ==
    /\ sig # "idle"
    /\ stop_requests < MaxCalls
    /\ _stop_event' = TRUE
    /\ server_socket' = [server_socket EXCEPT !.state = "closed"]
    /\ running' = FALSE
    /\ count' = [count EXCEPT !.signals = @ + 1]
    /\ UNCHANGED <<outsideVars, corpusVars, connVars, handlerVars, tlsVars, signal_handlers,
                   starter, stopper, sig>>

\* handle_client, at `while not self._stop_event.is_set()`: the thread goes
\* on to recv, or leaves the loop and closes the connection.
HandlerLoopCheck(c) ==
    /\ handler[c] = "serving"
    /\ frame[c].pc = "top"
    /\ IF _stop_event
       THEN handler' = [handler EXCEPT ![c] = "closed"] /\ UNCHANGED frame
       ELSE frame' = [frame EXCEPT ![c].pc = "recv"] /\ UNCHANGED handler
    /\ UNCHANGED <<outsideVars, corpusVars, c2s, s2c, peer, wire, received, tlsVars, lifeVars>>

\* handle_client: recv or sendall raises (connection reset, any other
\* error): the loop ends and the connection is closed.
HandlerIOError(c) ==
    /\ handler[c] = "serving"
    /\ frame[c].pc = "recv"
    /\ handler' = [handler EXCEPT ![c] = "closed"]
    /\ count' = [count EXCEPT !.io_errors = @ + 1]
    /\ UNCHANGED <<outsideVars, corpusVars, c2s, s2c, peer, wire, handlerVars, tlsVars,
                   server_socket, running, _stop_event, signal_handlers, starter,
                   stopper, sig>>

NextLife ==
    \/ StartCall
    \/ StartWrap
    \/ \E ok \in BOOLEAN : StartBind(ok)
    \/ \E ok \in BOOLEAN : StartListen(ok)
    \/ StartInstallSignals
    \/ StartSetRunning
    \/ LoopCheck
    \/ AcceptEnter
    \/ \E handshake \in {"ok", "failed"} : AcceptReturns(handshake)
    \/ Dispatch
    \/ AcceptFailed
    \/ StartFinallyClose
    \/ StartFinallyFlag
    \/ ShutdownClose
    \/ ShutdownClearRunning
    \/ ShutdownSetStop
    \/ SignalSetStop
    \/ SignalClose
    \/ SignalClearRunning
    \/ SignalNested
    \/ \E c \in Conns : HandlerLoopCheck(c)
    \/ \E c \in Conns : HandlerIOError(c)

SpecLife == InitLife /\ [][NextLife]_vars

\* Scheduling.  A thread that can execute its next statement is eventually
\* given the processor: the main thread (start(), and the signal handler
\* that runs on it once a signal has been delivered), the thread that has
\* called shutdown(), and the handler threads.  Nothing obliges a peer to
\* connect or a connection to fail, and nothing obliges anybody to call
\* start() or shutdown() or to send a signal.
MainThread ==
    \/ StartWrap
    \/ \E ok \in BOOLEAN : StartBind(ok)
    \/ \E ok \in BOOLEAN : StartListen(ok)
    \/ StartInstallSignals
    \/ StartSetRunning
    \/ LoopCheck
    \/ AcceptEnter
    \/ Dispatch
    \/ AcceptFailed
    \/ StartFinallyClose
    \/ StartFinallyFlag
    \/ SignalClose
    \/ SignalClearRunning

ShutdownThread == ShutdownClearRunning \/ ShutdownSetStop

HandlerThreads == \E c \in Conns : HandlerLoopCheck(c)

SpecLifeFair ==
    /\ SpecLife
    /\ WF_vars(MainThread)
    /\ WF_vars(ShutdownThread)
    /\ WF_vars(HandlerThreads)

(***************************************************************************)
(* create_ssl_context and the constructor over every TLS configuration.    *)
(* The state before the call holds the settings read from the              *)
(* configuration file; ssl_enabled is the configured value and there is    *)
(* no context yet.                                                         *)
(***************************************************************************)
InitTLS ==
    /\ Constructed
    /\ NoConfigLoad
    /\ NoClient
    /\ ~reread_on_query
    /\ fs0 = MultiFile
    /\ c2s = <<>>
    /\ s2c = <<>>
    /\ handler = <<>>
    /\ peer = <<>>
    /\ wire = <<>>
    /\ frame = <<>>
    /\ received = <<>>
    /\ config \in Configs
    /\ ssl_enabled = config.ssl_enabled
    /\ ssl_context = NoContext
    /\ \E server_side \in BOOLEAN, verify_client \in BOOLEAN :
           tls_call = [NoTLSCall EXCEPT !.server_side = server_side,
                                        !.verify_client = verify_client]
    /\ NotStarted

\* create_ssl_context is called with the configured files and PSK.
CallCreateContext ==
    LET r == create_ssl_context(config.certfile, config.keyfile, config.cafile,
                                config.psk, tls_call.server_side, tls_call.verify_client)
    IN  /\ tls_call.op = None
        /\ tls_call' = [tls_call EXCEPT !.op = "create_ssl_context",
                                        !.exc = r.exc, !.context = r.context]
        /\ UNCHANGED <<outsideVars, corpusVars, connVars, handlerVars, config, ssl_enabled,
                       ssl_context, lifeVars>>

\* The constructor runs its TLS block; it calls create_ssl_context with the
\* default role (server side, no client verification).
ConstructServer ==
    LET i == init_tls(config)
    IN  /\ tls_call.op = None
        /\ tls_call.server_side
        /\ ~tls_call.verify_client
        /\ ssl_enabled' = i.ssl_enabled
        /\ ssl_context' = i.ssl_context
        /\ tls_call' = [tls_call EXCEPT !.op = "__init__", !.exc = i.exc]
        /\ UNCHANGED <<outsideVars, corpusVars, connVars, handlerVars, config, lifeVars>>

\* start() is called on the server the constructor has returned.
StartConstructed ==
    /\ tls_call.op = "__init__"
    /\ tls_call.exc = None
    /\ StartCall

NextTLS ==
    \/ CallCreateContext
    \/ ConstructServer
    \/ StartConstructed
    \/ StartWrap

SpecTLS == InitTLS /\ [][NextTLS]_vars

(***************************************************************************)
(* Config: loading the configuration file.                                 *)
(* Config.__init__ sets the defaults and calls _load_config, which reads   *)
(* the file line by line and validates the required field at the end.      *)
(* The file exists and is readable text; its lines are modelled as they    *)
(* are written, character by character.                                    *)
(***************************************************************************)
\* The most lines a configuration file holds.
MaxConfigLines == 3

\* The lines configuration files are made of: valid, out-of-range and
\* non-numeric ports, keys in other case and with blanks around them, a
\* comment, a line without '=', corpus paths (set, empty, and "."), a
\* boolean, a blank line, and a value holding '='.
ConfigLines ==
    {<<"p", "o", "r", "t", "=", "8", "0">>,
     <<"p", "o", "r", "t", "=", "0">>,
     <<"p", "o", "r", "t", "=", "6", "5", "5", "3", "5">>,
     <<"p", "o", "r", "t", "=", "6", "5", "5", "3", "6">>,
     <<"p", "o", "r", "t", "=", "x">>,
     <<" ", "P", "o", "r", "t", " ", "=", " ", "7", " ">>,
     <<"#", "p", "o", "r", "t", "=", "x">>,
     <<"p", "o", "r", "t">>,
     <<"l", "i", "n", "u", "x", "p", "a", "t", "h", "=", "a">>,
     <<"F", "I", "L", "E", "_", "P", "A", "T", "H", "=", "b">>,
     <<"l", "i", "n", "u", "x", "p", "a", "t", "h", "=">>,
     <<"l", "i", "n", "u", "x", "p", "a", "t", "h", "=", ".">>,
     <<"p", "o", "r", "t", "=", "1", "_", "0">>,
     <<"s", "s", "l", "_", "e", "n", "a", "b", "l", "e", "d", "=", "Y", "e", "s">>,
     <<>>,
     <<"h", "o", "s", "t", "=", "h">>}

ConfigFiles == UNION {[1..k -> ConfigLines] : k \in 0..MaxConfigLines}

\* The keys _load_config recognises.
KEY ==
    [linuxpath |-> <<"l", "i", "n", "u", "x", "p", "a", "t", "h">>,
     file_path |-> <<"f", "i", "l", "e", "_", "p", "a", "t", "h">>,
     host |-> <<"h", "o", "s", "t">>,
     port |-> <<"p", "o", "r", "t">>,
     reread_on_query |-> <<"r", "e", "r", "e", "a", "d", "_", "o", "n", "_", "q", "u", "e", "r", "y">>,
     ssl_enabled |-> <<"s", "s", "l", "_", "e", "n", "a", "b", "l", "e", "d">>,
     certfile |-> <<"c", "e", "r", "t", "f", "i", "l", "e">>,
     ssl_certfile |-> <<"s", "s", "l", "_", "c", "e", "r", "t", "f", "i", "l", "e">>,
     keyfile |-> <<"k", "e", "y", "f", "i", "l", "e">>,
     ssl_keyfile |-> <<"s", "s", "l", "_", "k", "e", "y", "f", "i", "l", "e">>,
     cafile |-> <<"c", "a", "f", "i", "l", "e">>,
     ssl_cafile |-> <<"s", "s", "l", "_", "c", "a", "f", "i", "l", "e">>,
     psk |-> <<"p", "s", "k">>]

\* str.lower(), on the letters A-Z
UpperToLower ==
    ("A" :> "a") @@ ("B" :> "b") @@ ("C" :> "c") @@ ("D" :> "d") @@ ("E"
    :> "e") @@ ("F" :> "f") @@ ("G" :> "g") @@ ("H" :> "h") @@ ("I" :>
    "i") @@ ("J" :> "j") @@ ("K" :> "k") @@ ("L" :> "l") @@ ("M" :> "m")
    @@ ("N" :> "n") @@ ("O" :> "o") @@ ("P" :> "p") @@ ("Q" :> "q") @@
    ("R" :> "r") @@ ("S" :> "s") @@ ("T" :> "t") @@ ("U" :> "u") @@ ("V"
    :> "v") @@ ("W" :> "w") @@ ("X" :> "x") @@ ("Y" :> "y") @@ ("Z" :>
    "z")

lower(s) == [i \in 1..Len(s) |-> IF s[i] \in DOMAIN UpperToLower THEN UpperToLower[s[i]] ELSE s[i]]

\* line.split("=", 1) on a line that holds '=': the text before the first
\* '=' and the text after it.
split_once(line) ==
    LET i == SetMin({k \in 1..Len(line) : line[k] = "="})
    IN  [key |-> SubSeq(line, 1, i - 1), value |-> SubSeq(line, i + 1, Len(line))]

\* What the loop of _load_config makes of one line: nothing (blank line,
\* comment, no '='), or a key, lower-cased and trimmed, and a trimmed value.
parse_line(raw) ==
    LET line == strip(raw)
    IN  IF line = <<>> \/ line[1] = "#" \/ "=" \notin Range(line)
        THEN [skip |-> TRUE, key |-> <<>>, value |-> <<>>]
        ELSE [skip |-> FALSE,
              key |-> lower(strip(split_once(line).key)),
              value |-> strip(split_once(line).value)]

Digits == {"0", "1", "2", "3", "4", "5", "6", "7", "8", "9"}
DigitValue ==
    ("0" :> 0) @@ ("1" :> 1) @@ ("2" :> 2) @@ ("3" :> 3) @@ ("4" :> 4) @@
    ("5" :> 5) @@ ("6" :> 6) @@ ("7" :> 7) @@ ("8" :> 8) @@ ("9" :> 9)

RECURSIVE Decimal(_)
Decimal(ds) ==
    IF ds = <<>> THEN 0 ELSE 10 * Decimal(SubSeq(ds, 1, Len(ds) - 1)) + DigitValue[ds[Len(ds)]]

\* int(value): surrounding blanks are dropped; an optional sign, then
\* digits, which single underscores may separate.  Anything else raises
\* ValueError (ok false).
int(value) ==
    LET s == strip(value)
        signed == s # <<>> /\ s[1] \in {"+", "-"}
        body == IF signed THEN Tail(s) ELSE s
        wellformed ==
            /\ body # <<>>
            /\ \A i \in 1..Len(body) : body[i] \in Digits \cup {"_"}
            /\ body[1] # "_" /\ body[Len(body)] # "_"
            /\ \A i \in 1..(Len(body) - 1) : ~(body[i] = "_" /\ body[i + 1] = "_")
        magnitude == Decimal(SelectSeq(body, LAMBDA c : c \in Digits))
    IN  IF wellformed
        THEN [ok |-> TRUE, n |-> IF signed /\ s[1] = "-" THEN 0 - magnitude ELSE magnitude]
        ELSE [ok |-> FALSE, n |-> 0]

\* value.lower() in ("true", "1", "yes")
parse_bool(value) == lower(value) \in {<<"t", "r", "u", "e">>, <<"1">>, <<"y", "e", "s">>}

\* A variant of the port branch that accepts every integer.
set_port_any_range(self, value) ==
    IF ~int(value).ok
    THEN [self |-> self, exc |-> "ValueError"]
    ELSE [self |-> [self EXCEPT !.port = int(value).n], exc |-> None]

\* The branch of the key "port": the value is converted, checked against
\* 1..65535 and stored; ValueError otherwise, whichever of the two failed.
set_port(self, value) ==
    IF ~int(value).ok
    THEN [self |-> self, exc |-> "ValueError"]
    ELSE IF ~(1 <= int(value).n /\ int(value).n <= 65535)
    THEN [self |-> self, exc |-> "ValueError"]
    ELSE [self |-> [self EXCEPT !.port = int(value).n], exc |-> None]

\* One iteration of the loop of _load_config: the fields after the line,
\* and the exception that leaves the loop, if any.
load_line(self, raw) ==
    LET l == parse_line(raw)
        key == l.key
        value == l.value
        ok(fields) == [self |-> fields, exc |-> None]
    IN  IF l.skip THEN ok(self)
        ELSE IF key = KEY.linuxpath \/ key = KEY.file_path
            THEN ok([self EXCEPT !.linuxpath = value])
        ELSE IF key = KEY.host THEN ok([self EXCEPT !.host = value])
        ELSE IF key = KEY.port THEN set_port(self, value)
        ELSE IF key = KEY.reread_on_query
            THEN ok([self EXCEPT !.reread_on_query = parse_bool(value)])
        ELSE IF key = KEY.ssl_enabled
            THEN ok([self EXCEPT !.ssl_enabled = parse_bool(value)])
        ELSE IF key = KEY.certfile \/ key = KEY.ssl_certfile
            THEN ok([self EXCEPT !.certfile = Str(value)])
        ELSE IF key = KEY.keyfile \/ key = KEY.ssl_keyfile
            THEN ok([self EXCEPT !.keyfile = Str(value)])
        ELSE IF key = KEY.cafile \/ key = KEY.ssl_cafile
            THEN ok([self EXCEPT !.cafile = Str(value)])
        ELSE IF key = KEY.psk THEN ok([self EXCEPT !.psk = Str(value)])
        ELSE ok(self)

\* `not self.linuxpath or self.linuxpath == "."`: the required field is
\* missing or invalid.
linuxpath_invalid(self) == self.linuxpath = <<>> \/ self.linuxpath = <<".">>

\* The server is not involved: Config is loaded before it is constructed.
InitConfig ==
    /\ Constructed
    /\ ~reread_on_query
    /\ fs0 = MultiFile
    /\ c2s = <<>>
    /\ s2c = <<>>
    /\ handler = <<>>
    /\ peer = <<>>
    /\ wire = <<>>
    /\ frame = <<>>
    /\ received = <<>>
    /\ PlainServer
    /\ NotStarted
    /\ NoClient
    /\ config_file \in ConfigFiles
    /\ settings = DefaultSettings
    /\ loader = NotLoading

LoaderRuns == loader.exc = None /\ ~loader.returned

\* The loop reads the next line.  A ValueError of the port branch is
\* raised again by the handlers around it and leaves _load_config.
LoadLine ==
    LET n == loader.line_number + 1
        r == load_line(settings, config_file[n])
    IN  /\ LoaderRuns
        /\ n <= Len(config_file)
        /\ settings' = r.self
        /\ loader' = [loader EXCEPT !.line_number = n, !.exc = r.exc]
        /\ UNCHANGED <<corpusVars, connVars, otherVars, clientVars, config_file>>

\* The file is exhausted: the required field is validated, and
\* _load_config returns or raises ValueError.
LoadEnd ==
    /\ LoaderRuns
    /\ loader.line_number = Len(config_file)
    /\ IF linuxpath_invalid(settings)
       THEN loader' = [loader EXCEPT !.exc = "ValueError"]
       ELSE loader' = [loader EXCEPT !.returned = TRUE]
    /\ UNCHANGED <<corpusVars, connVars, otherVars, clientVars, config_file, settings>>

NextConfig ==
    \/ LoadLine
    \/ LoadEnd

SpecConfig == InitConfig /\ [][NextConfig]_vars

(***************************************************************************)
(* StringSearchClient: connect, send_query, close.                         *)
(* The server end is any peer: it writes reply lines and may close.  The   *)
(* operating system decides how connect, sendall and recv end; every way   *)
(* they can end is an input of the call.                                   *)
(***************************************************************************)
\* The most calls made on one client object.
MaxClientCalls == 3

\* The clients: plain; TLS without files; TLS with a CA file; TLS with a
\* certificate and key; and TLS with files that are missing or do not load.
ClientConfigs ==
    {NewClient(FALSE, None, None, None),
     NewClient(TRUE, None, None, None),
     NewClient(TRUE, None, None, "pem"),
     NewClient(TRUE, "pem", "pem", None),
     NewClient(TRUE, "notpem", "notpem", None),
     NewClient(TRUE, "missing", "missing", None),
     NewClient(TRUE, None, None, "notpem"),
     NewClient(TRUE, None, None, "missing")}

\* The arguments of send_query: empty, blank, a word, a word with blanks
\* around it.
ClientQueries == {<<>>, <<SP>>, <<"a">>, <<SP, "a", LF>>}

\* How socket.connect can end; "handshake" is a TLS handshake that fails
\* after the TCP connection is made.
LinkOutcomes == {"ok", "timeout", "refused", "oserror", "handshake"}
\* How sendall and recv can fail.
IOFaults == {"timeout", "reset", "pipe", "oserror"}

\* connect(), the `if self.use_ssl` block up to wrap_socket: the context is
\* created, certificate and key are loaded when both are given, the CA file
\* when it is given.  "ok", or the kind of the exception: ssl.SSLError, or
\* any other.
tls_setup(self) ==
    LET chain == IF truthy(self.certfile) /\ truthy(self.keyfile)
                 THEN IF load(self.certfile) # "ok" THEN load(self.certfile)
                      ELSE load(self.keyfile)
                 ELSE "ok"
        ca == IF truthy(self.cafile) THEN load(self.cafile) ELSE "ok"
    IN  IF chain # "ok" THEN chain ELSE ca

\* A new socket on which connect ended with `link`.  A failed TLS handshake
\* leaves the TCP connection made and the socket without a TLS session:
\* what is written on it afterwards goes out as it is.
linked(tls, link) ==
    [NoNet EXCEPT !.state = IF link \in {"ok", "handshake"} THEN "connected"
                            ELSE "unconnected",
                  !.tls = tls /\ link = "ok"]

\* connect(): the object and its connection afterwards, the exception
\* raised, and what caused it.  An ssl.SSLError of the setup closes the new
\* socket and raises ConnectionError, leaving self.socket as it was; any
\* other error of the setup continues on the plain socket with use_ssl
\* false.  Every failure of socket.connect raises ConnectionError, with
\* self.socket already set to the new socket.
connect(self, cur, link) ==
    LET setup == IF self.use_ssl THEN tls_setup(self) ELSE "plain"
        tls == setup = "ok"
        self1 == [self EXCEPT !.socket = IF tls THEN TLSSocket ELSE PlainSocket,
                              !.use_ssl = IF setup = "OSError" THEN FALSE ELSE @]
    IN  IF setup = "SSLError"
        THEN [self |-> self, net |-> cur, exc |-> "ConnectionError", cause |-> "ssl_setup"]
        ELSE [self |-> self1, net |-> linked(tls, link),
              exc |-> IF link = "ok" THEN None ELSE "ConnectionError",
              cause |-> IF link = "ok" THEN (IF setup = "OSError" THEN "fallback" ELSE None)
                        ELSE link]

\* A variant of the exception handlers of send_query that lets a timeout
\* through.
on_error_timeout_escapes(cause) == IF cause = "timeout" THEN "TimeoutError" ELSE "ConnectionError"

\* The exception handlers of send_query: timeout, reset, broken pipe, the
\* ConnectionError of the empty read and every other exception are raised
\* again as ConnectionError.
on_error(cause) == "ConnectionError"

\* A variant of close that keeps the socket when closing it fails.
close_keeps_socket_on_error(self, fails) ==
    IF self.socket = NoSocket \/ fails THEN self ELSE [self EXCEPT !.socket = NoSocket]

\* close(): the object afterwards.  Nothing happens without a socket;
\* otherwise the socket is closed, an exception of that is swallowed, and
\* self.socket is None in either case.
close(self, fails) ==
    IF self.socket = NoSocket THEN self ELSE [self EXCEPT !.socket = NoSocket]

\* A client object has been made; nothing has been called on it.
InitClient ==
    /\ Constructed
    /\ ~reread_on_query
    /\ fs0 = MultiFile
    /\ c2s = <<>>
    /\ s2c = <<>>
    /\ handler = <<>>
    /\ peer = <<>>
    /\ wire = <<>>
    /\ frame = <<>>
    /\ received = <<>>
    /\ PlainServer
    /\ NotStarted
    /\ NoConfigLoad
    /\ client \in ClientConfigs
    /\ net = NoNet
    /\ client_call = NoClientCall

\* No call is in progress and another one may be made.
ClientIdle == client_call.pc = "done" /\ client_call.n < MaxClientCalls

\* The record of a call that starts now.
NewCall(op, q) ==
    [NoClientCall EXCEPT !.n = client_call.n + 1, !.op = op, !.query = q,
                         !.before = [socket |-> client.socket, use_ssl |-> client.use_ssl,
                                     net |-> net]]

\* connect() is called and ends.
ClientConnect(link) ==
    LET r == connect(client, net, link)
    IN  /\ ClientIdle
        /\ link = "handshake" => (client.use_ssl /\ tls_setup(client) = "ok")
        /\ client' = r.self
        /\ net' = r.net
        /\ client_call' = [NewCall("connect", <<>>) EXCEPT !.exc = r.exc, !.cause = r.cause]
        /\ UNCHANGED <<corpusVars, connVars, otherVars, loaderVars>>

\* send_query(q) is called without a socket: ConnectionError.
ClientSendNotConnected(q) ==
    /\ ClientIdle
    /\ client.socket = NoSocket
    /\ client_call' = [NewCall("send_query", q) EXCEPT !.exc = "ConnectionError",
                                                      !.message = "not connected"]
    /\ UNCHANGED <<corpusVars, connVars, otherVars, loaderVars, client, net>>

\* send_query(q) is called with an empty or blank query: ValueError.
ClientSendRejected(q) ==
    /\ ClientIdle
    /\ client.socket # NoSocket
    /\ ~NonBlankQuery(q)
    /\ client_call' = [NewCall("send_query", q) EXCEPT !.exc = "ValueError",
                                                      !.message = "empty query"]
    /\ UNCHANGED <<corpusVars, connVars, otherVars, loaderVars, client, net>>

\* A variant of send_query without the check of the query.
ClientSend_unchecked(q) ==
    /\ ClientIdle
    /\ client.socket # NoSocket
    /\ net.state = "connected"
    /\ net' = [net EXCEPT !.sent = Append(net.sent, strip(q) \o <<LF>>)]
    /\ client_call' = [NewCall("send_query", q) EXCEPT !.pc = "recv"]
    /\ UNCHANGED <<corpusVars, connVars, otherVars, loaderVars, client>>

\* send_query(q): sendall writes the trimmed query and a newline; the call
\* goes on to recv.
ClientSend(q) ==
    /\ ClientIdle
    /\ client.socket # NoSocket
    /\ NonBlankQuery(q)
    /\ net.state = "connected"
    /\ net' = [net EXCEPT !.sent = Append(net.sent, strip(q) \o <<LF>>)]
    /\ client_call' = [NewCall("send_query", q) EXCEPT !.pc = "recv"]
    /\ UNCHANGED <<corpusVars, connVars, otherVars, loaderVars, client>>

\* send_query(q): sendall fails; a socket that is not connected can only
\* fail.  The handlers raise ConnectionError.
ClientSendFails(q, fault) ==
    /\ ClientIdle
    /\ client.socket # NoSocket
    /\ NonBlankQuery(q)
    /\ net.state # "connected" => fault \in {"pipe", "oserror"}
    /\ client_call' = [NewCall("send_query", q) EXCEPT !.exc = on_error(fault),
                                                      !.cause = fault]
    /\ UNCHANGED <<corpusVars, connVars, otherVars, loaderVars, client, net>>

\* send_query, recv(1024) returns what the server has written: the call
\* returns it decoded and trimmed.
ClientRecv ==
    /\ client_call.pc = "recv"
    /\ net.inbox # <<>>
    /\ net' = [net EXCEPT !.inbox = <<>>]
    /\ client_call' = [client_call EXCEPT !.pc = "done", !.data = net.inbox,
                                          !.result = strip(net.inbox)]
    /\ UNCHANGED <<corpusVars, connVars, otherVars, loaderVars, client>>

\* send_query, recv returns no bytes, the server having closed: the
\* ConnectionError raised for it is raised again by the last handler.
ClientRecvEmpty ==
    /\ client_call.pc = "recv"
    /\ net.inbox = <<>>
    /\ net.server_closed
    /\ client_call' = [client_call EXCEPT !.pc = "done", !.exc = on_error("empty"),
                                          !.cause = "empty"]
    /\ UNCHANGED <<corpusVars, connVars, otherVars, loaderVars, client, net>>

\* send_query, recv fails: nothing arrives in time, the connection is reset,
\* or another error.
ClientRecvFails(fault) ==
    /\ client_call.pc = "recv"
    /\ net.inbox = <<>>
    /\ fault # "pipe"
    /\ client_call' = [client_call EXCEPT !.pc = "done", !.exc = on_error(fault),
                                          !.cause = fault]
    /\ UNCHANGED <<corpusVars, connVars, otherVars, loaderVars, client, net>>

\* close() is called and returns; closing the socket may fail.
ClientCloseCall(fails) ==
    /\ ClientIdle
    /\ client.socket = NoSocket => ~fails
    /\ client' = close(client, fails)
    /\ net' = IF client.socket = NoSocket \/ fails THEN net
              ELSE [net EXCEPT !.state = "closed"]
    /\ client_call' = NewCall("close", <<>>)
    /\ UNCHANGED <<corpusVars, connVars, otherVars, loaderVars>>

\* The server writes a reply line: to a query, or (once) to whatever else
\* it has read, such as the first bytes of a TLS handshake.
ServerWrites(result) ==
    /\ net.state = "connected"
    /\ ~net.server_closed
    /\ net.replies <= Len(net.sent)
    /\ net.replies < MaxClientCalls
    /\ net' = [net EXCEPT !.inbox = @ \o reply_line(result), !.replies = @ + 1]
    /\ UNCHANGED <<corpusVars, connVars, otherVars, loaderVars, client, client_call>>

\* The server closes the connection.
ServerCloses ==
    /\ net.state = "connected"
    /\ ~net.server_closed
    /\ net' = [net EXCEPT !.server_closed = TRUE]
    /\ UNCHANGED <<corpusVars, connVars, otherVars, loaderVars, client, client_call>>

NextClient ==
    \/ \E link \in LinkOutcomes : ClientConnect(link)
    \/ \E q \in ClientQueries : ClientSendNotConnected(q)
    \/ \E q \in ClientQueries : ClientSendRejected(q)
    \/ \E q \in ClientQueries : ClientSend(q)
    \/ \E q \in ClientQueries : \E fault \in IOFaults : ClientSendFails(q, fault)
    \/ ClientRecv
    \/ ClientRecvEmpty
    \/ \E fault \in IOFaults : ClientRecvFails(fault)
    \/ \E fails \in BOOLEAN : ClientCloseCall(fails)
    \/ \E result \in {EXISTS, NOT_FOUND} : ServerWrites(result)
    \/ ServerCloses

SpecClient == InitClient /\ [][NextClient]_vars

(***************************************************************************)
(* One session of handle_client, statement by statement, with every way    *)
(* recv and sendall can end: data, a zero-length read, a timeout, a reset, *)
(* any other error.  The peer writes what it likes, in pieces of any size, *)
(* and the stop event may be set at any time by shutdown() or a signal.    *)
(* The session keeps a log of its reads and writes.                        *)
(***************************************************************************)
\* What the peer writes at once: a query that is a line of the corpus, an
\* empty line, NUL bytes (alone, before a newline, before a letter), blanks,
\* and a query longer than one read.
SessionChunks ==
    {<<"a", LF>>, <<LF>>, <<NUL, NUL>>, <<NUL, LF>>, <<NUL, "a">>, <<SP, LF>>,
     <<"a", "a", "a", LF>>}

\* How recv and sendall can fail.
SessionFaults == {"timeout", "reset", "oserror"}

\* The locals of a handle_client thread that has just been started: it is
\* at the head of the loop, has read nothing, and nothing has ended it.
NewSession == [pc |-> "top", query |-> <<>>, result |-> NOT_FOUND, data |-> <<>>,
               searched |-> FALSE, events |-> {}]
NoSessionTraffic == [written |-> 0, replies |-> 0, last |-> <<>>, reads |-> 0, log |-> <<>>,
                     reads_at_stop |-> 0]

ReadEntry(data) == [op |-> "read", bytes |-> data]
WriteEntry(message) == [op |-> "write", bytes |-> message]

InitSession ==
    /\ Constructed
    /\ NoConfigLoad
    /\ NoClient
    /\ ~reread_on_query
    /\ fs0 = MultiFile
    /\ c2s = [c \in {1} |-> <<>>]
    /\ s2c = [c \in {1} |-> <<>>]
    /\ handler = [c \in {1} |-> "serving"]
    /\ peer = [c \in {1} |-> Fresh]
    /\ wire = [c \in {1} |-> NoSessionTraffic]
    /\ frame = [c \in {1} |-> NewSession]
    /\ received = [c \in {1} |-> {}]
    /\ PlainServer
    /\ AcceptLoopRunning(1)

\* The session ends: the loop is left and the connection is closed.
ends(c, event) ==
    /\ handler' = [handler EXCEPT ![c] = "closed"]
    /\ frame' = [frame EXCEPT ![c].events = @ \cup {event}]

\* `continue`: the session goes back to the head of the loop.
continues(c, event) ==
    /\ frame' = [frame EXCEPT ![c].pc = "top", ![c].events = @ \cup {event}]
    /\ UNCHANGED handler

\* A variant of the head of the loop that does not look at the stop event.
SessionLoopCheck_ignores_stop(c) ==
    /\ handler[c] = "serving"
    /\ frame[c].pc = "top"
    /\ frame' = [frame EXCEPT ![c].pc = "recv"]
    /\ UNCHANGED handler
    /\ UNCHANGED <<outsideVars, corpusVars, c2s, s2c, peer, wire, received, tlsVars, lifeVars>>

\* `while not self._stop_event.is_set()`: on to recv, or out of the loop.
SessionLoopCheck(c) ==
    /\ handler[c] = "serving"
    /\ frame[c].pc = "top"
    /\ IF _stop_event
       THEN ends(c, "stop_observed")
       ELSE frame' = [frame EXCEPT ![c].pc = "recv"] /\ UNCHANGED handler
    /\ UNCHANGED <<outsideVars, corpusVars, c2s, s2c, peer, wire, received, tlsVars, lifeVars>>

\* A variant that hands every query, empty or not, to search_string.
SessionRecv_always_searches(c) ==
    LET data == recv(c2s[c], MAX_PAYLOAD)
        query == decode_query(data)
    IN  /\ handler[c] = "serving"
        /\ frame[c].pc = "recv"
        /\ c2s[c] # <<>>
        /\ c2s' = [c2s EXCEPT ![c] = after_recv(c2s[c], MAX_PAYLOAD)]
        /\ received' = [received EXCEPT ![c] = received[c] \cup {query}]
        /\ wire' = [wire EXCEPT ![c].reads = @ + 1,
                                ![c].log = Append(@, ReadEntry(data))]
        /\ frame' = [frame EXCEPT ![c].pc = "search",
                                  ![c].data = data,
                                  ![c].query = query,
                                  ![c].searched = FALSE]
        /\ UNCHANGED <<outsideVars, corpusVars, s2c, handler, peer, tlsVars, lifeVars>>

\* recv returns data; the query is decoded from the bytes of this read.  An
\* empty query goes straight to the sendall of STRING NOT FOUND.
SessionRecv(c) ==
    LET data == recv(c2s[c], MAX_PAYLOAD)
        query == decode_query(data)
    IN  /\ handler[c] = "serving"
        /\ frame[c].pc = "recv"
        /\ c2s[c] # <<>>
        /\ c2s' = [c2s EXCEPT ![c] = after_recv(c2s[c], MAX_PAYLOAD)]
        /\ received' = [received EXCEPT ![c] = received[c] \cup {query}]
        /\ wire' = [wire EXCEPT ![c].reads = @ + 1,
                                ![c].log = Append(@, ReadEntry(data))]
        /\ frame' = [frame EXCEPT ![c].pc = IF query = <<>> THEN "send_empty" ELSE "search",
                                  ![c].data = data,
                                  ![c].query = query,
                                  ![c].searched = FALSE]
        /\ UNCHANGED <<outsideVars, corpusVars, s2c, handler, peer, tlsVars, lifeVars>>

\* recv returns b"": the peer has closed and everything it wrote is read.
SessionRecvZero(c) ==
    /\ handler[c] = "serving"
    /\ frame[c].pc = "recv"
    /\ c2s[c] = <<>>
    /\ peer[c].state = "closed"
    /\ ends(c, "zero_read")
    /\ UNCHANGED <<outsideVars, corpusVars, c2s, s2c, peer, wire, received, tlsVars, lifeVars>>

\* recv raises: socket.timeout goes on with the loop, ConnectionResetError
\* and every other exception leave it.
SessionRecvFails(c, fault) ==
    /\ handler[c] = "serving"
    /\ frame[c].pc = "recv"
    /\ fault = "timeout" => c2s[c] = <<>>
    /\ IF fault = "timeout" THEN continues(c, "read_timeout") ELSE ends(c, "io_error")
    /\ UNCHANGED <<outsideVars, corpusVars, c2s, s2c, peer, wire, received, tlsVars, lifeVars>>

\* result = self.search_string(query), an exception giving STRING NOT FOUND.
SessionSearch(c) ==
    LET r == search_string(reread_on_query, fs, file_lines, file_content, frame[c].query)
    IN  /\ handler[c] = "serving"
        /\ frame[c].pc = "search"
        /\ file_lines' = r.file_lines
        /\ file_content' = r.file_content
        /\ frame' = [frame EXCEPT ![c].pc = "send", ![c].searched = TRUE,
                                  ![c].result = IF r.result = RAISE THEN NOT_FOUND
                                                ELSE r.result]
        /\ UNCHANGED <<outsideVars, reread_on_query, fs, fs0, call, connVars, received,
                       tlsVars, lifeVars>>

\* The bytes are written to the peer.
written(c, message) ==
    /\ s2c' = [s2c EXCEPT ![c] = s2c[c] \o message]
    /\ wire' = [wire EXCEPT ![c].replies = @ + 1, ![c].last = message,
                            ![c].log = Append(@, WriteEntry(message))]

\* The empty query: client_socket.sendall(b"STRING NOT FOUND\n"); continue
SessionSendEmpty(c) ==
    /\ handler[c] = "serving"
    /\ frame[c].pc = "send_empty"
    /\ peer[c].state # "closed"
    /\ written(c, reply_line(NOT_FOUND))
    /\ frame' = [frame EXCEPT ![c].pc = "top"]
    /\ UNCHANGED <<outsideVars, corpusVars, c2s, handler, peer, received, tlsVars, lifeVars>>

\* The sendall of the empty query raises.  It is not in a try block of its
\* own: socket.timeout is caught by the handler that goes on with the loop,
\* everything else by the handlers that leave it.
SessionSendEmptyFails(c, fault) ==
    /\ handler[c] = "serving"
    /\ frame[c].pc = "send_empty"
    /\ IF fault = "timeout" THEN continues(c, "send_failure") ELSE ends(c, "send_failure")
    /\ UNCHANGED <<outsideVars, corpusVars, c2s, s2c, peer, wire, received, tlsVars, lifeVars>>

\* client_socket.sendall((result + "\n").encode("utf-8")), then the head of
\* the loop again.
SessionSend(c) ==
    /\ handler[c] = "serving"
    /\ frame[c].pc = "send"
    /\ peer[c].state # "closed"
    /\ written(c, reply_line(frame[c].result))
    /\ frame' = [frame EXCEPT ![c].pc = "top"]
    /\ UNCHANGED <<outsideVars, corpusVars, c2s, handler, peer, received, tlsVars, lifeVars>>

\* That sendall raises, whatever the exception: the loop is left.
SessionSendFails(c, fault) ==
    /\ handler[c] = "serving"
    /\ frame[c].pc = "send"
    /\ ends(c, "send_failure")
    /\ UNCHANGED <<outsideVars, corpusVars, c2s, s2c, peer, wire, received, tlsVars, lifeVars>>

\* shutdown() or the signal handler sets the stop event.  The log notes how
\* many reads each session had made by then.
StopRequested ==
    /\ ~_stop_event
    /\ _stop_event' = TRUE
    /\ wire' = [c \in Conns |-> [wire[c] EXCEPT !.reads_at_stop = wire[c].reads]]
    /\ UNCHANGED <<outsideVars, corpusVars, c2s, s2c, handler, peer, handlerVars, tlsVars,
                   server_socket, running, signal_handlers, starter, stopper, sig, count>>

\* The peer writes some bytes.
PeerWrites(c, chunk) ==
    /\ peer[c].state # "closed"
    /\ wire[c].written < MaxWrites
    /\ c2s' = [c2s EXCEPT ![c] = c2s[c] \o chunk]
    /\ wire' = [wire EXCEPT ![c].written = @ + 1]
    /\ UNCHANGED <<outsideVars, corpusVars, s2c, handler, peer, handlerVars, tlsVars, lifeVars>>

\* The peer closes the connection.
PeerCloses(c) ==
    /\ peer[c].state # "closed"
    /\ peer' = [peer EXCEPT ![c].state = "closed"]
    /\ UNCHANGED <<outsideVars, corpusVars, c2s, s2c, handler, wire, handlerVars, tlsVars,
                   lifeVars>>

NextSession ==
    \/ \E c \in Conns : SessionLoopCheck(c)
    \/ \E c \in Conns : SessionRecv(c)
    \/ \E c \in Conns : SessionRecvZero(c)
    \/ \E c \in Conns : \E fault \in SessionFaults : SessionRecvFails(c, fault)
    \/ \E c \in Conns : SessionSearch(c)
    \/ \E c \in Conns : SessionSendEmpty(c)
    \/ \E c \in Conns : \E fault \in SessionFaults : SessionSendEmptyFails(c, fault)
    \/ \E c \in Conns : SessionSend(c)
    \/ \E c \in Conns : \E fault \in SessionFaults : SessionSendFails(c, fault)
    \/ StopRequested
    \/ \E c \in Conns : \E chunk \in SessionChunks : PeerWrites(c, chunk)
    \/ \E c \in Conns : PeerCloses(c)

SpecSession == InitSession /\ [][NextSession]_vars

\* Scheduling.  The handler thread is eventually given the processor when
\* it can execute its next statement: the test at the head of the loop, a
\* recv for which bytes or the end of the stream have arrived, the search,
\* a sendall (which returns or raises).  Nothing obliges the peer to write
\* or to close, a recv to fail, or anybody to stop the server.
SessionThread(c) ==
    \/ SessionLoopCheck(c)
    \/ SessionRecv(c)
    \/ SessionRecvZero(c)
    \/ SessionSearch(c)
    \/ SessionSendEmpty(c)
    \/ SessionSend(c)
    \/ \E fault \in SessionFaults : SessionSendEmptyFails(c, fault)
    \/ \E fault \in SessionFaults : SessionSendFails(c, fault)

SpecSessionFair == SpecSession /\ WF_vars(SessionThread(1))

(***************************************************************************)
(* The two modes side by side: one query put to a static-mode server and   *)
(* to a dynamic-mode server constructed over the same corpus file.  The    *)
(* files here have carriage returns too, which text-mode reading turns     *)
(* into "\n" for the cache and which the scan of the file sees as they are.*)
(***************************************************************************)
ModeFileChars == {"a", CR, LF}
ModeQueryChars == {"a", SP, CR, LF}
ModeFiles == {Missing, Directory, Unreadable}
                 \cup {RegularFile(d) : d \in StrUpTo(ModeFileChars, MaxFileLen)}
ModeQueries == StrUpTo(ModeQueryChars, MaxQueryLen)

\* The dynamic-mode server, as its constructor leaves it.
DynamicServer == __init__(TRUE, fs0)

InitModes ==
    /\ reread_on_query = FALSE
    /\ fs0 \in ModeFiles
    /\ fs = fs0
    /\ file_lines = __init__(reread_on_query, fs0).file_lines
    /\ file_content = __init__(reread_on_query, fs0).file_content
    /\ call = NoCall
    /\ NoConfigLoad
    /\ NoClient
    /\ c2s = <<>>
    /\ s2c = <<>>
    /\ handler = <<>>
    /\ peer = <<>>
    /\ wire = <<>>
    /\ frame = <<>>
    /\ received = <<>>
    /\ PlainServer
    /\ NotStarted

\* search_string(q) on both servers; `call` holds the two answers.
SearchBoth(q) ==
    LET s == search_string(reread_on_query, fs, file_lines, file_content, q)
        d == search_string(DynamicServer.reread_on_query, fs,
                           DynamicServer.file_lines, DynamicServer.file_content, q)
    IN  /\ ~call.made
        /\ call' = [made |-> TRUE, q |-> q, result |-> s.result, dynamic |-> d.result,
                    cacheRead |-> s.cacheRead, fileRead |-> s.fileRead,
                    before |-> ServerFields(reread_on_query, file_lines, file_content)]
        /\ file_lines' = s.file_lines
        /\ file_content' = s.file_content
        /\ UNCHANGED <<outsideVars, reread_on_query, fs, fs0, connVars, otherVars>>

NextModes ==
    \/ \E q \in ModeQueries : SearchBoth(q)
    \/ Return
    \/ DeleteFile

SpecModes == InitModes /\ [][NextModes]_vars

(***************************************************************************)
(* The accept loop and slow peers.  The main thread runs the loop of       *)
(* start(); every accepted connection gets a thread of its own running     *)
(* handle_client.  No socket has a timeout, so accept, recv and sendall    *)
(* wait for as long as the peer makes them wait.  When the listening       *)
(* socket is wrapped by a TLS context, accept() takes the connection and   *)
(* performs the TLS handshake with the peer before it returns, on the      *)
(* thread that called it.                                                  *)
(*                                                                         *)
(* handler[c] is the stage of connection c:                                *)
(*   none      - the peer has not connected                                *)
(*   backlog   - connected, waiting in the listen queue                    *)
(*   handshake - taken by accept(), which is in the TLS handshake          *)
(*   accepted  - returned by accept(), no thread yet                       *)
(*   serving   - its handle_client thread runs                             *)
(*   closed    - the connection is closed                                  *)
(***************************************************************************)
AcceptConns == {1, 2}

\* What a peer may send as the first bytes of a TLS connection.
Hellos == {"ClientHello", "garbage"}

\* The configurations of the servers the peers connect to.
AcceptConfigs ==
    {PlainConfig,
     [PlainConfig EXCEPT !.ssl_enabled = TRUE, !.certfile = "pem", !.keyfile = "pem"]}

NoPeerTraffic == [written |-> 0, replies |-> 0, last |-> <<>>, hello |-> None]

\* start() waits in accept(); nobody has connected.
InitAccept ==
    /\ Constructed
    /\ NoConfigLoad
    /\ NoClient
    /\ ~reread_on_query
    /\ fs0 = MultiFile
    /\ c2s = [c \in AcceptConns |-> <<>>]
    /\ s2c = [c \in AcceptConns |-> <<>>]
    /\ handler = [c \in AcceptConns |-> "none"]
    /\ peer = [c \in AcceptConns |-> Fresh]
    /\ wire = [c \in AcceptConns |-> NoPeerTraffic]
    /\ frame = [c \in AcceptConns |-> NoFrame]
    /\ received = [c \in AcceptConns |-> {}]
    /\ config \in AcceptConfigs
    /\ ssl_enabled = init_tls(config).ssl_enabled
    /\ ssl_context = init_tls(config).ssl_context
    /\ tls_call = [NoTLSCall EXCEPT !.op = "__init__", !.exc = init_tls(config).exc]
    /\ server_socket = [state |-> "listening", tls |-> ssl_enabled /\ ssl_context.present]
    /\ running = TRUE
    /\ _stop_event = FALSE
    /\ signal_handlers = TRUE
    /\ starter = [Idle EXCEPT !.pc = "in_accept"]
    /\ stopper = "idle"
    /\ sig = "idle"
    /\ count = [NoCounts EXCEPT !.starts = 1]

\* A peer connects: the connection is established by the operating system
\* and waits in the listen queue.
PeerConnects(c) ==
    /\ handler[c] = "none"
    /\ server_socket.state = "listening"
    /\ handler' = [handler EXCEPT ![c] = "backlog"]
    /\ UNCHANGED <<outsideVars, corpusVars, c2s, s2c, peer, wire, handlerVars, tlsVars, lifeVars>>

\* A connected peer sends the first bytes of its TLS handshake, or bytes
\* that are no handshake.
PeerSendsHello(c, hello) ==
    /\ server_socket.tls
    /\ handler[c] \in {"backlog", "handshake"}
    /\ wire[c].hello = None
    /\ wire' = [wire EXCEPT ![c].hello = hello]
    /\ UNCHANGED <<outsideVars, corpusVars, c2s, s2c, handler, peer, handlerVars, tlsVars,
                   lifeVars>>

\* A peer writes the query "a": at any time after it has connected on a
\* plaintext server, after the handshake on a TLS server.
PeerSendsQuery(c) ==
    /\ IF server_socket.tls THEN handler[c] = "serving"
                            ELSE handler[c] \in {"backlog", "accepted", "serving"}
    /\ wire[c].written < MaxWrites
    /\ c2s' = [c2s EXCEPT ![c] = c2s[c] \o <<"a", LF>>]
    /\ wire' = [wire EXCEPT ![c].written = @ + 1]
    /\ UNCHANGED <<outsideVars, corpusVars, s2c, handler, peer, handlerVars, tlsVars, lifeVars>>

\* A peer reads what the server has written to it.
PeerReads(c) ==
    /\ s2c[c] # <<>>
    /\ s2c' = [s2c EXCEPT ![c] = <<>>]
    /\ UNCHANGED <<outsideVars, corpusVars, c2s, handler, peer, wire, handlerVars, tlsVars,
                   lifeVars>>

\* self.server_socket.accept(), waiting: a connection is in the listen queue
\* and accept takes it.  On a plain socket accept returns it; on a wrapped
\* socket accept goes on with the TLS handshake on that connection.
AcceptTakes(c) ==
    /\ MainRuns
    /\ starter.pc = "in_accept"
    /\ handler[c] = "backlog"
    /\ IF server_socket.tls
       THEN /\ handler' = [handler EXCEPT ![c] = "handshake"]
            /\ starter' = [starter EXCEPT !.pc = "handshake"]
            /\ UNCHANGED count
       ELSE /\ handler' = [handler EXCEPT ![c] = "accepted"]
            /\ starter' = [starter EXCEPT !.pc = "dispatch", !.accepted = @ + 1]
            /\ count' = [count EXCEPT !.accepted = @ + 1]
    /\ UNCHANGED <<outsideVars, corpusVars, c2s, s2c, peer, wire, handlerVars, tlsVars,
                   server_socket, running, _stop_event, signal_handlers, stopper, sig>>

\* accept() on a wrapped socket, in the handshake: it reads what the peer
\* has sent.  A handshake that succeeds makes accept return the connection;
\* one that fails makes accept raise ssl.SSLError, an OSError.
HandshakeEnds(c) ==
    /\ MainRuns
    /\ starter.pc = "handshake"
    /\ handler[c] = "handshake"
    /\ wire[c].hello # None
    /\ IF wire[c].hello = "ClientHello"
       THEN /\ handler' = [handler EXCEPT ![c] = "accepted"]
            /\ starter' = [starter EXCEPT !.pc = "dispatch", !.accepted = @ + 1]
            /\ count' = [count EXCEPT !.accepted = @ + 1]
       ELSE /\ handler' = [handler EXCEPT ![c] = "closed"]
            /\ starter' = [starter EXCEPT !.pc = "oserror", !.exc = "handshake"]
            /\ count' = [count EXCEPT !.handshakes_failed = @ + 1]
    /\ UNCHANGED <<outsideVars, corpusVars, c2s, s2c, peer, wire, handlerVars, tlsVars,
                   server_socket, running, _stop_event, signal_handlers, stopper, sig>>

\* threading.Thread(target=self.handle_client, ...).start() for the
\* connection accept has returned.
DispatchAccepted(c) ==
    /\ MainRuns
    /\ starter.pc = "dispatch"
    /\ handler[c] = "accepted"
    /\ handler' = [handler EXCEPT ![c] = "serving"]
    /\ count' = [count EXCEPT !.dispatched = @ + 1]
    /\ starter' = [starter EXCEPT !.pc = "loop"]
    /\ UNCHANGED <<outsideVars, corpusVars, c2s, s2c, peer, wire, handlerVars, tlsVars,
                   server_socket, running, _stop_event, signal_handlers, stopper, sig>>

\* handle_client: recv returns what the peer has written; the query is
\* decoded and searched.  recv waits while there is nothing to read.
ServeRecv(c) ==
    LET query == decode_query(recv(c2s[c], MAX_PAYLOAD))
        r == search_string(reread_on_query, fs, file_lines, file_content, query)
    IN  /\ handler[c] = "serving"
        /\ frame[c].pc = "recv"
        /\ c2s[c] # <<>>
        /\ c2s' = [c2s EXCEPT ![c] = after_recv(c2s[c], MAX_PAYLOAD)]
        /\ received' = [received EXCEPT ![c] = received[c] \cup {query}]
        /\ frame' = [frame EXCEPT ![c].pc = "send", ![c].query = query,
                                  ![c].result = r.result]
        /\ file_lines' = r.file_lines
        /\ file_content' = r.file_content
        /\ UNCHANGED <<outsideVars, reread_on_query, fs, fs0, call, s2c, handler, peer, wire,
                       tlsVars, lifeVars>>

\* handle_client: sendall of the reply.  sendall waits while the peer has
\* not read what was written to it before.
ServeSend(c) ==
    /\ handler[c] = "serving"
    /\ frame[c].pc = "send"
    /\ s2c[c] = <<>>
    /\ s2c' = [s2c EXCEPT ![c] = reply_line(frame[c].result)]
    /\ wire' = [wire EXCEPT ![c].replies = @ + 1, ![c].last = reply_line(frame[c].result)]
    /\ frame' = [frame EXCEPT ![c].pc = "recv"]
    /\ UNCHANGED <<outsideVars, corpusVars, c2s, handler, peer, received, tlsVars, lifeVars>>

\* The statements of the accept loop, on the main thread.
AcceptLoopStep ==
    \/ LoopCheck
    \/ AcceptEnter
    \/ \E c \in AcceptConns : AcceptTakes(c)
    \/ \E c \in AcceptConns : HandshakeEnds(c)
    \/ \E c \in AcceptConns : DispatchAccepted(c)
    \/ AcceptFailed

NextAccept ==
    \/ LoopCheck
    \/ AcceptEnter
    \/ \E c \in AcceptConns : AcceptTakes(c)
    \/ \E c \in AcceptConns : HandshakeEnds(c)
    \/ \E c \in AcceptConns : DispatchAccepted(c)
    \/ AcceptFailed
    \/ StartFinallyClose
    \/ StartFinallyFlag
    \/ \E c \in AcceptConns : ServeRecv(c)
    \/ \E c \in AcceptConns : ServeSend(c)
    \/ \E c \in AcceptConns : PeerConnects(c)
    \/ \E c \in AcceptConns : \E hello \in Hellos : PeerSendsHello(c, hello)
    \/ \E c \in AcceptConns : PeerSendsQuery(c)
    \/ \E c \in AcceptConns : PeerReads(c)

SpecAccept == InitAccept /\ [][NextAccept]_vars

(***************************************************************************)
(* A server at work: start() in its accept loop on the main thread, one    *)
(* connection with its handle_client thread, shutdown() on another thread, *)
(* signals, and the corpus file removed from under the server.  Each runs  *)
(* statement by statement, interleaved with the others.                    *)
(***************************************************************************)
\* What the peer writes at once: a line of the corpus, and a string that is
\* not in it.
ServeChunks == {<<"a", LF>>, <<"a", "a">>}

\* The server is constructed in static mode; start() has accepted one
\* connection, has started its handler thread and waits in accept for the
\* next connection, which does not come.
InitServe ==
    /\ Constructed
    /\ NoConfigLoad
    /\ NoClient
    /\ ~reread_on_query
    /\ fs0 = MultiFile
    /\ c2s = [c \in {1} |-> <<>>]
    /\ s2c = [c \in {1} |-> <<>>]
    /\ handler = [c \in {1} |-> "serving"]
    /\ peer = [c \in {1} |-> Fresh]
    /\ wire = [c \in {1} |-> NoSessionTraffic]
    /\ frame = [c \in {1} |-> NewSession]
    /\ received = [c \in {1} |-> {}]
    /\ PlainServer
    /\ AcceptLoopRunning(1)

NextServe ==
    \/ \E c \in Conns : SessionLoopCheck(c)
    \/ \E c \in Conns : SessionRecv(c)
    \/ \E c \in Conns : SessionRecvZero(c)
    \/ \E c \in Conns : \E fault \in SessionFaults : SessionRecvFails(c, fault)
    \/ \E c \in Conns : SessionSearch(c)
    \/ \E c \in Conns : SessionSend(c)
    \/ \E c \in Conns : \E fault \in SessionFaults : SessionSendFails(c, fault)
    \/ \E c \in Conns : \E chunk \in ServeChunks : PeerWrites(c, chunk)
    \/ \E c \in Conns : PeerCloses(c)
    \/ AcceptFailed
    \/ StartFinallyClose
    \/ StartFinallyFlag
    \/ ShutdownClose
    \/ ShutdownClearRunning
    \/ ShutdownSetStop
    \/ SignalSetStop
    \/ SignalClose
    \/ SignalClearRunning
    \/ SignalNested
    \/ DeleteFile

SpecServe == InitServe /\ [][NextServe]_vars

TypeOK ==
    /\ reread_on_query \in BOOLEAN
    /\ fs \in FileStates
    /\ fs0 \in FileStates
    /\ call.made \in BOOLEAN

(***************************************************************************)
(* Vocabulary of the properties.                                           *)
(***************************************************************************)
\* l is a full line of the text: a maximal run of characters between two
\* line terminators (or the ends of the text).
IsFullLine(text, l) ==
    \E i \in 1..(Len(text) + 1) : \E j \in (i - 1)..Len(text) :
        /\ SubSeq(text, i, j) = l
        /\ \A k \in i..j : text[k] # LF
        /\ i = 1 \/ text[i - 1] = LF
        /\ j = Len(text) \/ text[j + 1] = LF

\* The string occurs somewhere in the text of the file.
OccursIn(f, str) == f.kind = "file" /\ Contains(f.data, str)

StaticCall == call.made /\ ~reread_on_query
DynamicCall == call.made /\ reread_on_query
NonBlank(q) == q # <<>> /\ strip(q) # <<>>

\* The file cannot be scanned: missing, not a regular file, open fails, or
\* (empty file) mmap fails.
ScanFails(f) == f.kind # "file" \/ f.data = <<>>

(***************************************************************************)
(* C1..C7: the search contract.                                            *)
(***************************************************************************)
\* C1: in static mode, a non-blank query whose trimmed text is a full line
\* of the corpus file as it was at construction is answered STRING EXISTS,
\* whatever has happened to the file since.
C1_StaticFindsFullLine ==
    (/\ StaticCall
     /\ NonBlank(call.q)
     /\ fs0.kind = "file"
     /\ IsFullLine(fs0.data, strip(call.q)))
        => call.result = EXISTS

\* C1 witness: such a query answered after the file has been deleted.
C1_Witness ==
    /\ StaticCall
    /\ NonBlank(call.q)
    /\ fs0.kind = "file"
    /\ IsFullLine(fs0.data, strip(call.q))
    /\ fs = Missing
    /\ call.result = EXISTS

\* C2 (as claimed): in static mode, a query that occurs nowhere in the text
\* of the corpus file (neither as it was at construction nor as it is now)
\* is answered STRING NOT FOUND.
C2_StaticAbsentNotFound ==
    (/\ StaticCall
     /\ NonBlank(call.q)
     /\ fs0.kind = "file"
     /\ fs = fs0
     /\ ~Contains(fs0.data, strip(call.q))
     /\ ~Contains(fs0.data, call.q))
        => call.result = NOT_FOUND

\* C3: in dynamic mode the answer to a non-blank query is STRING EXISTS
\* exactly when the trimmed query occurs in the file as it is at the time
\* of the query.
C3_DynamicReflectsFile ==
    (DynamicCall /\ NonBlank(call.q))
        => (call.result = EXISTS <=> OccursIn(fs, strip(call.q)))

\* C3 witness: a string absent at construction, added since, and found.
C3_Witness ==
    /\ DynamicCall
    /\ NonBlank(call.q)
    /\ fs0.kind = "file"
    /\ ~OccursIn(fs0, strip(call.q))
    /\ OccursIn(fs, strip(call.q))
    /\ call.result = EXISTS

\* C4 (as claimed): in static mode the answer is the one the same call
\* would give had the file stayed as it was at construction.
C4_StaticIgnoresChanges ==
    StaticCall
        => call.result =
             search_string(FALSE, fs0, file_lines, file_content, call.q).result

\* C5 (as claimed): in static mode, when the file was absent, unreadable or
\* not a regular file at construction, both cache fields are empty and
\* every search answers STRING NOT FOUND, whatever the file is now.
C5_EmptyCacheNeverMatches ==
    (~reread_on_query /\ fs0.kind # "file")
        => /\ file_lines = {}
           /\ file_content = <<>>
           /\ call.made => call.result = NOT_FOUND

\* C6: an empty or whitespace-only query is answered STRING NOT FOUND, in
\* both modes, without any access to the cache or to the corpus file.
C6_BlankQueryNotFound ==
    (call.made /\ ~NonBlank(call.q))
        => /\ call.result = NOT_FOUND
           /\ ~call.cacheRead
           /\ ~call.fileRead

\* C6 witness: a whitespace-only query against a loaded, non-empty cache.
C6_Witness ==
    /\ StaticCall
    /\ call.q # <<>>
    /\ strip(call.q) = <<>>
    /\ file_content # <<>>
    /\ call.result = NOT_FOUND

\* C7 (as claimed): in either mode, when the file is missing, not a regular
\* file or unreadable, the call answers STRING NOT FOUND and leaves the
\* server's fields unchanged.
C7_IOFailureNotFound ==
    (call.made /\ fs.kind # "file")
        => /\ call.result = NOT_FOUND
           /\ ServerFields(reread_on_query, file_lines, file_content) = call.before

\* C7 (amended): no call raises or changes the server's fields; and a call
\* that reaches the scan of the file (every non-blank query in dynamic mode,
\* a cache miss in static mode) while the file cannot be scanned answers
\* STRING NOT FOUND.
C7_ScanFailureNotFound ==
    call.made
        => /\ call.result \in {EXISTS, NOT_FOUND}
           /\ ServerFields(reread_on_query, file_lines, file_content) = call.before
           /\ (call.fileRead /\ ScanFails(fs)) => call.result = NOT_FOUND

\* C7 witness: a static-mode cache miss that falls through to an
\* unreadable file.
C7_Witness ==
    /\ StaticCall
    /\ file_content # <<>>
    /\ call.fileRead
    /\ fs = Unreadable
    /\ call.result = NOT_FOUND

(***************************************************************************)
(* C8..C10: the wire protocol.                                             *)
(***************************************************************************)
\* The stream is a concatenation of status lines.
OnlyStatusLines(stream) ==
    /\ Len(stream) % 2 = 0
    /\ \A i \in 1..(Len(stream) \div 2) :
           SubSeq(stream, 2 * i - 1, 2 * i) \in {<<EXISTS, LF>>, <<NOT_FOUND, LF>>}

\* C8: every message the server writes to a connection is exactly
\* 'STRING EXISTS\n' or 'STRING NOT FOUND\n', and nothing else is ever in
\* the stream towards the client.
C8_OnlyStatusLinesWritten ==
    \A c \in Conns :
        /\ wire[c].replies > 0 => wire[c].last \in {<<EXISTS, LF>>, <<NOT_FOUND, LF>>}
        /\ OnlyStatusLines(s2c[c])

\* C8 witness: the server has answered a query that is in the corpus and one
\* read that held no query.
C8_Witness ==
    \E c \in Conns :
        /\ wire[c].replies >= 2
        /\ s2c[c] = <<EXISTS, LF, NOT_FOUND, LF>>

C10_RoundTrip ==
    \A c \in Conns :
        (peer[c].api /\ peer[c].returned)
            => /\ (fs.kind = "file" /\ IsFullLine(fs.data, strip(peer[c].q)))
                      => peer[c].response = <<EXISTS>>
               /\ ~OccursIn(fs, strip(peer[c].q))
                      => peer[c].response = <<NOT_FOUND>>

(***************************************************************************)
(* C11.  With several connections served at once, whatever the order in    *)
(* which the handler threads and the clients take their steps, the reply   *)
(* last written on a connection is the answer to a query that the server   *)
(* read from that same connection: the status line that one iteration of   *)
(* handle_client gives for it.                                             *)
(***************************************************************************)
C11_NoCrossTalk ==
    \A c \in Conns :
        wire[c].replies > 0 =>
            \E q \in received[c] :
                wire[c].last =
                    handle_request(reread_on_query, fs, file_lines, file_content, q).message

\* Both connections have been answered, with different answers, and both
\* handlers are again in the middle of a request at the same time.
C11_Witness ==
    /\ Conns = MultiConns
    /\ \A c \in Conns : wire[c].replies > 0 /\ frame[c].pc # "recv"
    /\ wire[1].last # wire[2].last
    /\ frame[1].query # frame[2].query

(***************************************************************************)
(* Vocabulary of the lifecycle properties.                                 *)
(***************************************************************************)
\* The lifecycle state, read off the fields of the server:
\*   Stopped      - the listening socket is closed and the running flag clear
\*   ShuttingDown - the stop event is set or the socket is closed
\*   Running      - the running flag is set
\*   Listening    - the socket is bound and listening
\*   Created      - otherwise
Phase ==
    IF server_socket.state = "closed" /\ ~running THEN "Stopped"
    ELSE IF _stop_event \/ server_socket.state = "closed" THEN "ShuttingDown"
    ELSE IF running THEN "Running"
    ELSE IF server_socket.state = "listening" THEN "Listening"
    ELSE "Created"

Rank(phase) ==
    CASE phase = "Created" -> 1
      [] phase = "Listening" -> 2
      [] phase = "Running" -> 3
      [] phase = "ShuttingDown" -> 4
      [] phase = "Stopped" -> 5

\* start() has ended.
StartEnded == starter.pc = "idle" /\ starter.outcome # None

(***************************************************************************)
(* C12.  An I/O error on one connection ends only that connection.  As     *)
(* long as nobody has asked the server to stop, after any number of        *)
(* connection resets, receive or send errors and failed TLS handshakes     *)
(* the accept loop is still running on the listening socket, and the only  *)
(* handlers that have ended are those whose own connection failed.         *)
(***************************************************************************)
C12_IOErrorEndsOnlyThatConnection ==
    (count.io_errors + count.handshakes_failed > 0 /\ stop_requests = 0)
        => /\ starter.pc \in LoopPcs
           /\ server_socket.state = "listening"
           /\ Cardinality({c \in Conns : handler[c] = "closed"}) = count.io_errors

(***************************************************************************)
(* C13.  The lifecycle only moves forward, Created -> Listening ->         *)
(* Running -> ShuttingDown -> Stopped, whatever start(), shutdown() and    *)
(* the signals do: no step takes the server to an earlier state, a         *)
(* connection is accepted only once the socket has been bound and is       *)
(* listening, and the running flag turns true only on the step from        *)
(* Listening to Running.                                                   *)
(***************************************************************************)
C13_LifecycleForwardOnly ==
    [][/\ Rank(Phase') >= Rank(Phase)
       /\ count.accepted' > count.accepted => Rank(Phase) >= 2
       /\ (running' /\ ~running) => Phase = "Listening"]_vars

(***************************************************************************)
(* C14.  The stop event is unset when the server is constructed, and once  *)
(* it is set no step unsets it: not a second shutdown(), not another       *)
(* signal, not start(), not a handler.                                     *)
(***************************************************************************)
C14_StopSignalMonotonic ==
    /\ ~_stop_event
    /\ [][_stop_event => _stop_event']_vars

\* The stop event is set after a shutdown() and a signal, and a start()
\* called after that has run to its end.
C14_Witness ==
    /\ _stop_event
    /\ count.shutdowns > 0
    /\ count.signals > 0
    /\ count.starts = 2
    /\ StartEnded

(***************************************************************************)
(* C15.  Once the stop event is set and the listening socket closed, the   *)
(* accept loop takes no further connection and starts no further handler   *)
(* thread, however the loop and shutdown() or the signal handler are       *)
(* interleaved.                                                            *)
(***************************************************************************)
C15_NoDispatchAfterStop ==
    [][(_stop_event /\ server_socket.state = "closed")
           => /\ count.accepted' = count.accepted
              /\ count.dispatched' = count.dispatched]_vars

(***************************************************************************)
(* C16.  When the server is asked to stop while the accept loop is         *)
(* running - by shutdown() from another thread or by a signal, a second    *)
(* one included - start() returns normally: it does not end with an error. *)
(***************************************************************************)
C16_ShutdownErrorsSwallowed ==
    (StartEnded /\ starter.interrupted \in LoopPcs) => starter.outcome = "returned"

(***************************************************************************)
(* C17.  When bind or listen fails, start() ends with RuntimeError and     *)
(* leaves the server stopped: the socket closed, the running flag false,   *)
(* and no connection accepted by that call.                                *)
(***************************************************************************)
C17_StartupFailureStops ==
    (StartEnded /\ starter.exc \in {"bind", "listen"})
        => /\ starter.outcome = "RuntimeError"
           /\ server_socket.state = "closed"
           /\ ~running
           /\ starter.accepted = 0
           /\ Phase = "Stopped"

\* The first start() has bound the socket, listen has failed, and start()
\* has ended; nobody has asked the server to stop.
C17_Witness ==
    /\ StartEnded
    /\ starter.exc = "listen"
    /\ count.starts = 1
    /\ stop_requests = 0

\* The configuration asks for TLS but gives neither a certificate/key pair
\* nor a PSK.
NoTLSMaterial(cfg) ==
    /\ cfg.ssl_enabled
    /\ ~(truthy(cfg.certfile) /\ truthy(cfg.keyfile))
    /\ ~truthy(cfg.psk)

(***************************************************************************)
(* C19.  A server configured with ssl_enabled true but with neither a      *)
(* certificate/key pair nor a PSK is still constructed, and serves in      *)
(* plaintext: create_ssl_context fails on its configuration, the           *)
(* constructor returns with ssl_enabled false and no TLS context, and      *)
(* start() never wraps the listening socket.                               *)
(***************************************************************************)
C19_NoMaterialStartsPlaintext ==
    NoTLSMaterial(config)
        => /\ create_ssl_context(config.certfile, config.keyfile, config.cafile,
                                 config.psk, TRUE, FALSE).exc = "ValueError"
           /\ tls_call.exc = None
           /\ ~ssl_enabled
           /\ ~ssl_context.present
           /\ ~server_socket.tls

\* Such a server is in its accept loop and has accepted a connection.
C19_Witness ==
    /\ NoTLSMaterial(config)
    /\ tls_call.op = "__init__"
    /\ server_socket.state = "listening"
    /\ running
    /\ count.accepted > 0

(***************************************************************************)
(* Vocabulary of the TLS properties.                                       *)
(***************************************************************************)
ContextCreated == tls_call.op = "create_ssl_context"
ServerConstructed == tls_call.op = "__init__"

NoneSupplied ==
    ~truthy(config.certfile) /\ ~truthy(config.keyfile) /\ ~truthy(config.psk)
OnlyOneOfPair == truthy(config.certfile) # truthy(config.keyfile)
PairSupplied == truthy(config.certfile) /\ truthy(config.keyfile)

\* The files the call refers to: certificate and key when both are given,
\* the CA file when it is given.
Referenced ==
    (IF PairSupplied THEN {config.certfile, config.keyfile} ELSE {})
        \cup (IF truthy(config.cafile) THEN {config.cafile} ELSE {})

(***************************************************************************)
(* C18.  With ssl_enabled true, whatever makes create_ssl_context fail -   *)
(* a configuration error, a missing file, a certificate or CA file that    *)
(* does not load, any unexpected error - the constructor still returns,    *)
(* with ssl_enabled false and no TLS context.                              *)
(***************************************************************************)
C18_TLSFailureDegrades ==
    (/\ ServerConstructed
     /\ config.ssl_enabled
     /\ create_ssl_context(config.certfile, config.keyfile, config.cafile,
                           config.psk, TRUE, FALSE).exc # None)
        => /\ tls_call.exc = None
           /\ ~ssl_enabled
           /\ ~ssl_context.present

(***************************************************************************)
(* C20, as worded.  create_ssl_context fails with ValueError exactly when  *)
(* none of certfile, keyfile and psk is supplied or exactly one of         *)
(* certfile and keyfile is; for every other combination it returns a       *)
(* context when all the files it refers to exist, and fails with           *)
(* FileNotFoundError when one of them does not exist.                      *)
(***************************************************************************)
C20_ContextOrError ==
    ContextCreated
        => /\ tls_call.exc = "ValueError" <=> (NoneSupplied \/ OnlyOneOfPair)
           /\ (~(NoneSupplied \/ OnlyOneOfPair) /\ \A f \in Referenced : path_exists(f))
                  => (tls_call.exc = None /\ tls_call.context.present)
           /\ (~(NoneSupplied \/ OnlyOneOfPair) /\ \E f \in Referenced : ~path_exists(f))
                  => tls_call.exc = "FileNotFoundError"

(***************************************************************************)
(* C20, amended.  create_ssl_context fails with ValueError exactly when    *)
(* none of certfile, keyfile and psk is supplied or exactly one of         *)
(* certfile and keyfile is; for every other combination it returns a       *)
(* context when all the files it refers to exist and load; it fails with   *)
(* FileNotFoundError when the certificate or the key file does not exist,  *)
(* and when the CA file does not exist and the certificate and key, if     *)
(* given, have loaded.                                                     *)
(***************************************************************************)
C20_ContextOrErrorWhenFilesLoad ==
    ContextCreated
        => /\ tls_call.exc = "ValueError" <=> (NoneSupplied \/ OnlyOneOfPair)
           /\ (~(NoneSupplied \/ OnlyOneOfPair) /\ \A f \in Referenced : load(f) = "ok")
                  => (tls_call.exc = None /\ tls_call.context.present)
           /\ (PairSupplied /\ (~path_exists(config.certfile) \/ ~path_exists(config.keyfile)))
                  => tls_call.exc = "FileNotFoundError"
           /\ (/\ ~(NoneSupplied \/ OnlyOneOfPair)
               /\ truthy(config.cafile) /\ ~path_exists(config.cafile)
               /\ PairSupplied => (load(config.certfile) = "ok" /\ load(config.keyfile) = "ok"))
                  => tls_call.exc = "FileNotFoundError"

\* create_ssl_context was called with a certificate and key that load and
\* a CA file that does not exist, and failed with FileNotFoundError.
C20_Witness ==
    /\ ContextCreated
    /\ config.certfile = "pem" /\ config.keyfile = "pem"
    /\ config.cafile = "missing"
    /\ tls_call.exc = "FileNotFoundError"

(***************************************************************************)
(* C21.  In the context create_ssl_context returns, peer-certificate       *)
(* verification is on exactly when a CA file was supplied: for both roles  *)
(* and either value of verify_client, so also as the constructor of the    *)
(* server calls it (server side, verify_client false).                     *)
(***************************************************************************)
C21_VerificationIffCA ==
    (ContextCreated /\ tls_call.exc = None)
        => (tls_call.context.verify_mode = "CERT_REQUIRED" <=> truthy(config.cafile))

(***************************************************************************)
(* Vocabulary of the configuration properties.                             *)
(***************************************************************************)
LoadFails == loader.exc # None
LoadDone == LoadFails \/ loader.returned

\* The line sets the port, and its value is not an integer or is an integer
\* outside 1..65535.
PortLine(raw) == ~parse_line(raw).skip /\ parse_line(raw).key = KEY.port
BadPortLine(raw) ==
    /\ PortLine(raw)
    /\ \/ ~int(parse_line(raw).value).ok
       \/ int(parse_line(raw).value).n \notin 1..65535

\* The lines that set the corpus path, and the path the last of them gives.
CorpusLines ==
    {i \in 1..Len(config_file) :
        /\ ~parse_line(config_file[i]).skip
        /\ parse_line(config_file[i]).key \in {KEY.linuxpath, KEY.file_path}}
CorpusPathMissing == CorpusLines = {}
CorpusPath == parse_line(config_file[SetMax(CorpusLines)]).value

SomePortLineBad == \E i \in 1..Len(config_file) : BadPortLine(config_file[i])

(***************************************************************************)
(* C22, as worded.  Loading is all-or-nothing: for every sequence of       *)
(* configuration lines it fails, returning no Config object, if some port  *)
(* line is non-numeric or outside 1..65535, wherever the line stands, or   *)
(* if after the last line the corpus path is missing or empty; otherwise   *)
(* it succeeds.                                                            *)
(***************************************************************************)
C22_LoadAllOrNothing ==
    LoadDone
        => /\ LoadFails <=> \/ SomePortLineBad
                            \/ CorpusPathMissing
                            \/ CorpusPath = <<>>
           /\ loader.returned <=> ~LoadFails

(***************************************************************************)
(* C22, amended.  Loading fails, returning no Config object, if some port  *)
(* line is non-numeric or outside 1..65535, wherever the line stands, or   *)
(* if after the last line the corpus path is missing, empty or ".";        *)
(* otherwise it succeeds.                                                  *)
(***************************************************************************)
C22_LoadAllOrNothingPathNotDot ==
    LoadDone
        => /\ LoadFails <=> \/ SomePortLineBad
                            \/ CorpusPathMissing
                            \/ CorpusPath = <<>>
                            \/ CorpusPath = <<".">>
           /\ loader.returned <=> ~LoadFails

\* A file that sets a corpus path, then a port out of range, then a valid
\* port: loading has failed at the second line.
C22_Witness ==
    /\ Len(config_file) = 3
    /\ ~CorpusPathMissing /\ CorpusPath \notin {<<>>, <<".">>}
    /\ BadPortLine(config_file[2])
    /\ PortLine(config_file[3]) /\ ~BadPortLine(config_file[3])
    /\ LoadFails
    /\ loader.line_number = 2

(***************************************************************************)
(* Vocabulary of the client properties.                                    *)
(***************************************************************************)
\* This step is the start of a call of the client.
Calls(op) == client_call'.n = client_call.n + 1 /\ client_call'.op = op

\* The last call was op and it has ended.
Called(op) == client_call.op = op /\ client_call.pc = "done"

\* The client holds a socket on which what it writes goes out unencrypted.
PlaintextChannel == client.socket # NoSocket /\ net.state = "connected" /\ ~net.tls

(***************************************************************************)
(* C23.  send_query on a client that holds a socket rejects every empty    *)
(* or whitespace-only query with ValueError before any network operation:  *)
(* no byte is sent, nothing is read, and the object and its connection     *)
(* are as they were.                                                       *)
(***************************************************************************)
C23_BlankQueryRejectedLocally ==
    [][(/\ Calls("send_query")
        /\ client.socket # NoSocket
        /\ ~NonBlankQuery(client_call'.query))
           => /\ client_call'.exc = "ValueError"
              /\ client_call'.pc = "done"
              /\ net' = net
              /\ client' = client]_vars

\* A connected client that has sent a query before has been called with a
\* blank query and has raised ValueError.
C23_Witness ==
    /\ Called("send_query")
    /\ client_call.query = <<SP>>
    /\ client_call.exc = "ValueError"
    /\ net.state = "connected"
    /\ net.sent # <<>>

(***************************************************************************)
(* C24.  close() is idempotent and never raises: whatever was called       *)
(* before, it leaves self.socket None, also when closing the socket        *)
(* fails; close() without a socket changes nothing; and send_query after   *)
(* close() raises the 'not connected' ConnectionError and sends nothing.   *)
(***************************************************************************)
C24_CloseIdempotent ==
    [][/\ Calls("close")
          => /\ client_call'.exc = None
             /\ client'.socket = NoSocket
             /\ client.socket = NoSocket => (client' = client /\ net' = net)
       /\ (client_call.op = "close" /\ Calls("send_query"))
          => /\ client_call'.exc = "ConnectionError"
             /\ client_call'.message = "not connected"
             /\ client_call'.pc = "done"
             /\ net' = net]_vars

\* close() was called on a connected client, closing the socket failed, and
\* the client holds no socket.
C24_Witness ==
    /\ Called("close")
    /\ client_call.before.socket # NoSocket
    /\ client_call.before.net.state = "connected"
    /\ net.state = "connected"
    /\ client.socket = NoSocket

(***************************************************************************)
(* C25.  connect() with use_ssl true falls back to plaintext only when     *)
(* the TLS setup fails with an error that is not an SSL error; an SSL      *)
(* error of the setup or a failed TLS handshake raises ConnectionError     *)
(* and never leaves the client with a plaintext connection; timeout and    *)
(* refusal raise ConnectionError too.                                      *)
(***************************************************************************)
C25_FallbackOnlyOnNonSSLError ==
    (Called("connect") /\ client_call.before.use_ssl)
        => /\ client.socket = PlainSocket => tls_setup(client) = "OSError"
           /\ (tls_setup(client) = "SSLError" \/ client_call.cause = "handshake")
                 => (client_call.exc = "ConnectionError" /\ ~PlaintextChannel)
           /\ client_call.cause \in {"timeout", "refused"}
                 => client_call.exc = "ConnectionError"

(***************************************************************************)
(* C26, as worded.  For a non-empty query on a client holding a socket,    *)
(* send_query either returns the server's response or raises               *)
(* ConnectionError: timeout, reset, broken pipe, any other OS error and    *)
(* an empty read all become ConnectionError, and no other kind of          *)
(* exception escapes.                                                      *)
(***************************************************************************)
C26_ResponseOrConnectionError ==
    (/\ Called("send_query")
     /\ client_call.before.socket # NoSocket
     /\ client_call.query # <<>>)
        => \/ /\ client_call.exc = None
              /\ client_call.data # <<>>
              /\ client_call.result = strip(client_call.data)
           \/ /\ client_call.exc = "ConnectionError"
              /\ client_call.cause \in IOFaults \cup {"empty"}

(***************************************************************************)
(* C26, amended.  For a query that is neither empty nor whitespace-only,   *)
(* on a client holding a socket, send_query either returns the server's    *)
(* response or raises ConnectionError: timeout, reset, broken pipe, any    *)
(* other OS error and an empty read all become ConnectionError, and no     *)
(* other kind of exception escapes.                                        *)
(***************************************************************************)
C26_ResponseOrConnectionErrorNonBlank ==
    (/\ Called("send_query")
     /\ client_call.before.socket # NoSocket
     /\ NonBlankQuery(client_call.query))
        => \/ /\ client_call.exc = None
              /\ client_call.data # <<>>
              /\ client_call.result = strip(client_call.data)
           \/ /\ client_call.exc = "ConnectionError"
              /\ client_call.cause \in IOFaults \cup {"empty"}

\* A query was sent on a connected client and the read timed out: the call
\* raised ConnectionError.
C26_Witness ==
    /\ Called("send_query")
    /\ NonBlankQuery(client_call.query)
    /\ Len(net.sent) = Len(client_call.before.net.sent) + 1
    /\ client_call.cause = "timeout"
    /\ client_call.exc = "ConnectionError"

(***************************************************************************)
(* C27.  search_string is idempotent: in either mode and for every query,  *)
(* a second call with the same query, made after the first with the        *)
(* corpus file unchanged, returns what the first returned, and the first   *)
(* call has left the cache fields, which the second reads, as they were.   *)
(***************************************************************************)
C27_SearchIdempotent ==
    call.made
        => /\ search_string(reread_on_query, fs, file_lines, file_content, call.q).result
                  = call.result
           /\ file_lines = call.before.file_lines
           /\ file_content = call.before.file_content

\* In static mode a query that is not in the cache was found by the scan of
\* the file, which has changed since the load: the call has read both the
\* cache and the file.
C27_Witness ==
    /\ StaticCall
    /\ NonBlank(call.q)
    /\ call.cacheRead /\ call.fileRead
    /\ call.result = EXISTS
    /\ fs # fs0

(***************************************************************************)
(* Vocabulary of the session properties.                                   *)
(***************************************************************************)
\* The reads and writes of the session on connection c, in order.
Log(c) == wire[c].log

\* The bytes of a read hold no query once decoded and trimmed.
EmptyRead(data) == data # <<>> /\ decode_query(data) = <<>>

\* This step writes a reply on connection c.
Writes(c) == wire'[c].replies = wire[c].replies + 1

(***************************************************************************)
(* C28.  The handler treats each read that returns bytes as one complete   *)
(* request: it writes exactly one response before it reads again, the      *)
(* responses come in the order of the reads, and each is the answer to     *)
(* the bytes of that one read, never to bytes of two reads combined.       *)
(***************************************************************************)
C28_OneResponsePerRead ==
    \A c \in Conns :
        \A i \in 1..Len(Log(c)) :
            /\ Log(c)[i].op = "read"
                  => (i = 1 \/ Log(c)[i - 1].op = "write")
            /\ Log(c)[i].op = "write"
                  => /\ i > 1
                     /\ Log(c)[i - 1].op = "read"
                     /\ Log(c)[i].bytes =
                            handle_request(reread_on_query, fs, file_lines, file_content,
                                           Log(c)[i - 1].bytes).message

(***************************************************************************)
(* C29.  A session ends exactly when one of these has happened: a          *)
(* zero-length read, a read timeout, a connection reset or other I/O       *)
(* error, a send failure, or the stop event being observed at the head of  *)
(* the loop.                                                               *)
(***************************************************************************)
C29_SessionEndsExactlyWhen ==
    \A c \in Conns :
        handler[c] = "closed"
            <=> frame[c].events \cap {"zero_read", "read_timeout", "io_error",
                                      "send_failure", "stop_observed"} # {}

(***************************************************************************)
(* C30.  When the bytes of a read are empty after decoding and trimming,   *)
(* search_string is not called for them, the reply the handler sends is    *)
(* STRING NOT FOUND, and having sent it the session is open and back at    *)
(* the head of its loop for the next read.                                 *)
(***************************************************************************)
C30_EmptyQueryNotFoundNoSearch ==
    [][\A c \in Conns :
          /\ EmptyRead(frame'[c].data) => ~frame'[c].searched
          /\ (Writes(c) /\ EmptyRead(frame[c].data))
                => /\ wire'[c].last = reply_line(NOT_FOUND)
                   /\ handler'[c] = "serving"
                   /\ frame'[c].pc = "top"]_vars

\* A read of NUL bytes was answered STRING NOT FOUND, and the next read, a
\* query that is a line of the corpus, was served on the same session.
C30_Witness ==
    \E c \in Conns :
        /\ Len(Log(c)) = 4
        /\ Log(c)[1] = ReadEntry(<<NUL, NUL>>)
        /\ Log(c)[2] = WriteEntry(reply_line(NOT_FOUND))
        /\ Log(c)[3] = ReadEntry(<<"a", LF>>)
        /\ Log(c)[4] = WriteEntry(reply_line(EXISTS))
        /\ handler[c] = "serving"

(***************************************************************************)
(* C34, C35: the static-mode cache.                                        *)
(***************************************************************************)
\* C34: in every state after construction the two cache fields agree: the
\* line set is non-empty exactly when the joined text is non-empty,
\* whatever the file was when it was loaded; in dynamic mode both are empty.
C34_CacheFieldsAgree ==
    /\ file_lines # {} <=> file_content # <<>>
    /\ reread_on_query => (file_lines = {} /\ file_content = <<>>)

\* C34 witness: a cache loaded from a file with a blank line in it, after a
\* search has been served and the file has gone.
C34_Witness ==
    /\ ~reread_on_query
    /\ fs0.kind = "file"
    /\ Contains(fs0.data, <<LF, LF>>)
    /\ file_lines # {}
    /\ file_content # <<>>
    /\ call.made
    /\ fs = Missing

\* The three checks of a static-mode search, on the trimmed query.
InCachedText(str) == Contains(call.before.file_content, str)
InCachedLines(str) == str \in call.before.file_lines
FoundByScan(str) == mmap_scan(fs, str) = EXISTS

\* C35 (as claimed): in static mode the answer is STRING EXISTS exactly when
\* the trimmed query is a substring of the cached text, or a member of the
\* cached line set, or found by the scan of the current file; and the file
\* is scanned only when both cache checks miss.
C35_StaticSearchOrder ==
    StaticCall
        => /\ call.result = EXISTS
                <=> \/ InCachedText(strip(call.q))
                    \/ InCachedLines(strip(call.q))
                    \/ FoundByScan(strip(call.q))
           /\ call.fileRead
                => ~InCachedText(strip(call.q)) /\ ~InCachedLines(strip(call.q))

\* C35 (amended): the same, for a query that is not empty after trimming;
\* and then the file is scanned exactly when both cache checks miss.
C35_StaticSearchOrderNonBlank ==
    (StaticCall /\ NonBlank(call.q))
        => /\ call.result = EXISTS
                <=> \/ InCachedText(strip(call.q))
                    \/ InCachedLines(strip(call.q))
                    \/ FoundByScan(strip(call.q))
           /\ call.fileRead
                <=> ~InCachedText(strip(call.q)) /\ ~InCachedLines(strip(call.q))

\* C35 witness: a query that misses both cache checks and is found by the
\* scan of the file as it is now.
C35_Witness ==
    /\ StaticCall
    /\ NonBlank(call.q)
    /\ call.before.file_content # <<>>
    /\ ~InCachedText(strip(call.q))
    /\ ~InCachedLines(strip(call.q))
    /\ call.fileRead
    /\ call.result = EXISTS

(***************************************************************************)
(* C40: static mode against dynamic mode.                                  *)
(***************************************************************************)
\* C40: on a corpus file unchanged since construction, the static-mode
\* server and the dynamic-mode server give the same answer to every query
\* whose trimmed text has no "\n" in it; and to every query, whenever the
\* dynamic-mode server answers STRING EXISTS the static-mode server does.
C40_StaticDynamicAgree ==
    (call.made /\ fs = fs0)
        => /\ LF \notin Range(strip(call.q)) => call.result = call.dynamic
           /\ call.dynamic = EXISTS => call.result = EXISTS

\* C40 witness: a file with a carriage return in it, and a query without
\* line terminator that the static-mode server answers from its cache and
\* the dynamic-mode server from the file, both with STRING EXISTS.
C40_Witness ==
    /\ call.made
    /\ fs = fs0
    /\ fs0.kind = "file"
    /\ CR \in Range(fs0.data)
    /\ LF \notin Range(call.q)
    /\ CR \notin Range(call.q)
    /\ call.cacheRead
    /\ ~call.fileRead
    /\ call.result = EXISTS
    /\ call.dynamic = EXISTS

(***************************************************************************)
(* C39: the TLS flag and the TLS context.                                  *)
(***************************************************************************)
\* The configuration asks for TLS and create_ssl_context succeeds on it.
TLSWantedAndMade ==
    /\ config.ssl_enabled
    /\ create_ssl_context(config.certfile, config.keyfile, config.cafile,
                          config.psk, TRUE, FALSE).exc = None

\* C39: once the constructor has returned, ssl_enabled is true exactly when
\* a TLS context is present, which is exactly when the configuration asked
\* for TLS and the creation of the context succeeded; start() has wrapped
\* the listening socket when it reaches bind() in exactly those cases; and
\* with ssl_enabled false in the configuration there is no context.
C39_TLSFlagIffContext ==
    (ServerConstructed /\ tls_call.exc = None)
        => /\ ssl_enabled <=> ssl_context.present
           /\ ssl_context.present <=> TLSWantedAndMade
           /\ starter.pc = "bind" => (server_socket.tls <=> TLSWantedAndMade)
           /\ ~config.ssl_enabled => ~ssl_context.present

\* C39 witness: a server configured with certificate and key, whose start()
\* has wrapped the listening socket.
C39_Witness ==
    /\ ServerConstructed
    /\ tls_call.exc = None
    /\ config.ssl_enabled
    /\ ssl_enabled
    /\ ssl_context.present
    /\ starter.pc = "bind"
    /\ server_socket.tls

(***************************************************************************)
(* C36: the query handed to search_string.                                 *)
(***************************************************************************)
\* C36 (as claimed): whatever bytes a read returns, the query the handler
\* passes to search_string has no NUL byte in it and no whitespace at
\* either end.
C36_QueryHasNoNUL ==
    \A c \in Conns :
        frame[c].searched
            => /\ NUL \notin Range(frame[c].query)
               /\ strip(frame[c].query) = frame[c].query

(***************************************************************************)
(* C37: shutdown() and the signal handler.                                 *)
(***************************************************************************)
\* The last statement of shutdown(), of _shutdown.
ShutdownReturns == ShutdownSetStop
SignalHandlerReturns == SignalClearRunning \/ SignalNested

\* A statement of shutdown() or of _shutdown that closes the listening socket.
ClosesListeningSocket == ShutdownClose \/ SignalClose \/ SignalNested

\* C37 (as claimed): shutdown() and the signal handler have the same effect:
\* each returns with the stop event set, the listening socket closed and the
\* running flag false, and neither closes the listening socket while the
\* stop event is still unset.
C37_ShutdownEquivalent ==
    [][/\ (ShutdownReturns \/ SignalHandlerReturns)
            => (_stop_event' /\ server_socket'.state = "closed" /\ ~running')
       /\ ClosesListeningSocket => _stop_event']_vars

(***************************************************************************)
(* C31: a slow peer and the others.                                        *)
(***************************************************************************)
\* Connection c keeps its thread waiting: its handler waits in recv for
\* bytes the peer has not written, or in sendall for the peer to read, or
\* its setup waits for the first bytes of the peer.
ReadPending(c) == handler[c] = "serving" /\ frame[c].pc = "recv" /\ c2s[c] = <<>>
WritePending(c) == handler[c] = "serving" /\ frame[c].pc = "send" /\ s2c[c] # <<>>
SetupPending(c) == handler[c] = "handshake" /\ wire[c].hello = None
Pending(c) == ReadPending(c) \/ WritePending(c) \/ SetupPending(c)

\* C31 (as claimed): while the read, the write or the setup of one
\* connection is pending, the accept loop is not held up (with another
\* connection waiting in the listen queue, the main thread has a statement
\* of the loop to execute), and the handler of every other connection that
\* has a query to read or a reply to write can do so.
C31_SlowPeerBlocksNobody ==
    \A c \in AcceptConns : \A d \in AcceptConns \ {c} :
        (Pending(c) /\ starter.pc \in LoopPcs \cup {"handshake"})
            => /\ handler[d] = "backlog" => ENABLED AcceptLoopStep
               /\ (handler[d] = "serving" /\ frame[d].pc = "recv" /\ c2s[d] # <<>>)
                      => ENABLED ServeRecv(d)
               /\ (handler[d] = "serving" /\ frame[d].pc = "send" /\ s2c[d] = <<>>)
                      => ENABLED ServeSend(d)

(***************************************************************************)
(* C32: start() after a shutdown.                                          *)
(***************************************************************************)
\* The server was asked to stop while start() was in its accept loop.
StoppedWhileRunning == stop_requests > 0 /\ starter.interrupted \in LoopPcs

\* C32 (as claimed): once the server has been asked to stop while it was
\* running, start() eventually ends, with the listening socket closed and
\* the running flag false, whatever the handler threads are doing.
C32_StartReturnsAfterShutdown ==
    StoppedWhileRunning
        ~> (StartEnded /\ server_socket.state = "closed" /\ ~running)

(***************************************************************************)
(* C38: a handler after the stop event.                                    *)
(***************************************************************************)
\* The handler of connection c has seen the stop event set at the head of
\* its loop.
StopObserved(c) == "stop_observed" \in frame[c].events

\* C38: once the stop event is set a handler makes at most one more read
\* (the one it had passed the head of the loop for); a handler that has
\* seen the stop event has left the loop, and a handler that has left the
\* loop never reads again; and a handler whose peer has written or has
\* closed after the stop event eventually leaves the loop.
C38_AtMostOneReadAfterStop ==
    /\ [](\A c \in Conns :
            /\ _stop_event => wire[c].reads <= wire[c].reads_at_stop + 1
            /\ StopObserved(c) => handler[c] = "closed")
    /\ [][\A c \in Conns :
            handler[c] = "closed" => wire'[c].reads = wire[c].reads]_vars
    /\ (_stop_event /\ (c2s[1] # <<>> \/ peer[1].state = "closed"))
           ~> handler[1] = "closed"

\* C38 witness: a handler that was waiting in recv when the stop event was
\* set, has served that one read, and has left the loop at its head.
C38_Witness ==
    /\ _stop_event
    /\ handler[1] = "closed"
    /\ StopObserved(1)
    /\ wire[1].reads = wire[1].reads_at_stop + 1
    /\ wire[1].replies = wire[1].reads
    /\ wire[1].reads > 0

(***************************************************************************)
(* C33: who writes the cache.                                              *)
(***************************************************************************)
\* C33: the cache fields and the mode flag are what the constructor left
\* them, in every state: no statement of search_string, _mmap_search,
\* handle_client, start(), shutdown() or the signal handler changes them.
C33_CacheWrittenOnlyByConstructor ==
    /\ [](/\ file_lines = __init__(reread_on_query, fs0).file_lines
          /\ file_content = __init__(reread_on_query, fs0).file_content)
    /\ [][/\ file_lines' = file_lines
          /\ file_content' = file_content
          /\ reread_on_query' = reread_on_query]_vars

\* C33 witness: a static-mode server whose handler has answered a query
\* that missed the cache, from the file that had been removed meanwhile,
\* and whose start() has ended after a shutdown.
C33_Witness ==
    /\ ~reread_on_query
    /\ file_lines # {}
    /\ fs = Missing
    /\ frame[1].searched
    /\ frame[1].result = NOT_FOUND
    /\ _stop_event
    /\ StartEnded

=============================================================================
